---- MODULE Spec2Model ----
(***************************************************************************)
(* Model of the signal-event generation and of the detector-signal-yield   *)
(* weighting services of skyllh:                                           *)
(*   - PublicDataDatasetSignalGenerator (analyses/i3/trad_ps/              *)
(*     signal_generator.py): the retry loop of generate_signal_events and  *)
(*     the per-batch sampling of _generate_events;                         *)
(*   - SrcDetSigYieldWeightsService and DatasetSignalWeightFactorsService  *)
(*     (core/weights.py);                                                  *)
(*   - the get methods of the point-like-source detector signal efficiency *)
(*     implementations of skylab (skylab/i3/detsigeff.py).                 *)
(* Sequences are 1-based here; the 0-based indices of the source are       *)
(* shifted by one.                                                         *)
(***************************************************************************)
EXTENDS Integers, Sequences, FiniteSets, TLC

(***************************************************************************)
(* Bounds of the model.                                                    *)
(***************************************************************************)
\* Largest requested event count n_events.
MaxN == 3
\* The ghost counter of raw draws saturates here ("MaxRaw or more").
MaxRaw == 6
\* Largest yield a detector-signal-yield model returns for a source.
MaxY == 2
\* Largest mean passed to PublicDataSignalGenerator.generate_signal_events.
MaxMean == 2
\* Number of values the random state service delivers in one run.
MaxDraws == 4
\* Largest number of sources passed to one call of get.
MaxSrc == 3
\* Largest number of rows of em_results.
MaxRows == 3
\* Largest number of datasets passed to create_analysis.
MaxDatasets == 2

VARIABLES
    \* ---- PublicDataDatasetSignalGenerator.generate_signal_events ----
    pc,               \* position of the call: idle, while, returned, raised
    exc,              \* the exception that ended the call ("none" if none)
    n_events,         \* argument n_events
    src_dec,          \* argument src_dec (as a declination cell, see DecValues)
    dec_idx,          \* local dec_idx
    n_evt_generated,  \* local n_evt_generated
    events,           \* local events: None or a table
    events_,          \* local events_: the last batch, after the cut
    drawn,            \* ghost: the raw draws of the last batch
    n_evt,            \* the size requested for the last batch
    ret,              \* the returned value
    n_raw,            \* ghost: raw draws made by the call (saturating)
    \* ---- PublicDataSignalGenerator.generate_signal_events ----
    m_pc,             \* position: idle, shg, ds, src, returned, raised
    m_exc,            \* the exception that ended the call ("none" if none)
    m_args,           \* the arguments and the configuration of the generator
    rss,              \* the values the random state service still delivers
    m_shg,            \* index of the group of the outer loop (1-based)
    m_ds,             \* loop index ds_idx (1-based)
    m_src,            \* loop index shg_src_idx (1-based)
    m_n_events,       \* local n_events
    tot_n_events,     \* local tot_n_events
    signal_events_dict,  \* local signal_events_dict: ds_idx -> event rows
    m_log,            \* ghost: the tables the dataset generators returned
    m_calls,          \* ghost: the calls of the dataset generators, in order
    m_sum_w_mean,     \* ghost: sum of the w_mean used, as numerator and
                      \* denominator
    m_run,            \* ghost: 1 in the first run, 2 in its repetition
    m_first,          \* ghost: the outcome of the first run
    \* ---- SrcDetSigYieldWeightsService ----
    constructed,              \* a service object exists
    _shg_mgr,                 \* attribute _shg_mgr
    _detsigyield_arr,         \* attribute _detsigyield_arr (2D)
    _src_recarray_list_list,  \* attribute _src_recarray_list_list
    _src_weight_array_list,   \* attribute _src_weight_array_list
    _a_jk,                    \* attribute _a_jk: None or the matrix
    _a_jk_grads,              \* attribute _a_jk_grads: None or the dict
    c_pc,                     \* calculate: idle, or in its loop
    sidx,                     \* calculate: local sidx
    shg_idx,                  \* calculate: loop index shg_idx (1-based)
    ds_idx,                   \* calculate: loop index ds_idx (1-based)
    calcs_left,               \* calculate calls the run still makes
    \* ---- DatasetSignalWeightFactorsService ----
    f_constructed,            \* a factors service object exists
    _f_j,                     \* attribute _f_j: unset (None) or the factors
    _f_j_grads,               \* attribute _f_j_grads: unset or the dict
    f_in,                     \* ghost: the pair the last calculate read
    \* ---- the last call on a service ----
    last_call,                \* ghost: operation, arguments, state before it
    w_exc,                    \* the exception the last call raised, or "none"
    \* ---- readers of the service, and what the yield models returned ----
    got,                      \* the pair the last get_weights call returned
    Y_log,                    \* ghost: the responses of the models, in call order
    a_jk_mgr,                 \* ghost: the manager _a_jk was allocated for
    a_jk_obj,                 \* the allocation _a_jk and _a_jk_grads are bound to
    held,                     \* the objects a reader holds from get_weights
    \* ---- the detector signal efficiency methods (skylab/i3/detsigeff.py) ----
    _sinDec_binning,          \* attribute _sinDec_binning
    det_ret,                  \* the last call on the method and what it gave
    \* ---- calculate_TS and do_trials_with_em (time_dependent_ps.py) ----
    ts_pc,                    \* idle, for (in the loop), returned, stored, raised
    ts_exc,                   \* the exception do_trials_with_em ended with
    em_results,               \* argument em_results: the rows of the gamma scan
    ts_idx,                   \* the row the loop is at (1-based)
    max_TS,                   \* local max_TS
    best_em_result,           \* local best_em_result: None or a row
    best_fitparam_values,     \* local best_fitparam_values: None or the values
    ts_log,                   \* ghost: TS and fit parameters of each maximization
    \* ---- create_analysis (publicdata_ps/mcbkg_ps.py) ----
    ca_pc,                    \* idle, created, loading, returned, raised
    ca_exc,                   \* the exception create_analysis raised
    ca_args,                  \* the arguments of the call
    minimizer,                \* local minimizer: the implementation it wraps
    ca_loaded,                \* number of datasets loaded so far
    ana_llhratio              \* ana.llhratio: None or the minimizer it was built with

mVars == <<m_pc, m_exc, m_args, rss, m_shg, m_ds, m_src, m_n_events,
           tot_n_events, signal_events_dict, m_log, m_calls, m_sum_w_mean, m_run,
           m_first>>

detVars == <<_sinDec_binning, det_ret>>

tsVars == <<ts_pc, ts_exc, em_results, ts_idx, max_TS, best_em_result,
            best_fitparam_values, ts_log>>

caVars == <<ca_pc, ca_exc, ca_args, minimizer, ca_loaded, ana_llhratio>>

anaVars == <<detVars, tsVars, caVars>>

genVars == <<pc, exc, n_events, src_dec, dec_idx, n_evt_generated, events,
             events_, drawn, n_evt, ret, n_raw, mVars, anaVars>>

wVars == <<constructed, _shg_mgr, _detsigyield_arr, _src_recarray_list_list,
           _src_weight_array_list, _a_jk, _a_jk_grads, c_pc, sidx, shg_idx,
           ds_idx, calcs_left, f_constructed, _f_j, _f_j_grads, f_in,
           last_call, w_exc, got, Y_log, a_jk_mgr, a_jk_obj, held>>

ghostVars == <<got, Y_log, a_jk_mgr, a_jk_obj, held>>

vars == <<genVars, wVars>>

(***************************************************************************)
(* Python values: None and a table (record array) are different things.    *)
(***************************************************************************)
None == [none |-> TRUE, rows |-> <<>>]

Table(rows) == [none |-> FALSE, rows |-> rows]

\* A Python object: its class, its elements (a sequence's items, a manager's
\* group list) and, for a detector-signal-yield model, the global parameter
\* indices its gradient map is keyed by.
Obj(type, items, keys) == [type |-> type, items |-> items, keys |-> keys]

isinstance(o, T) == o.type = T

PyList(items) == Obj("list", items, {})

Other == Obj("object", <<>>, {})

NoObj == Obj("NoneType", <<>>, {})

(***************************************************************************)
(* The smearing matrix (read-only fixture).  One entry per true            *)
(* declination bin: which of the bin's PDFs exist.                         *)
(*   "none"    : no event drawn for the bin is valid,                      *)
(*   "partial" : an event drawn for the bin may be valid or not,           *)
(*   "full"    : every event drawn for the bin is valid.                   *)
(***************************************************************************)
Coverage == <<"none", "partial", "full">>

NDecBins == Len(Coverage)

\* Declination cells: 0 lies below the matrix's range, NDecBins + 1 above it,
\* d in 1..NDecBins lies in bin d.
DecValues == 0 .. (NDecBins + 1)

InCoverage(dec) == dec \in 1 .. NDecBins

\* sm.get_true_dec_idx(src_dec).  For a declination outside the matrix the
\* outcomes are: the lookup raises, or it hands back an index that is no bin
\* of the matrix (0 here).
get_true_dec_idx(dec) ==
    IF InCoverage(dec)
    THEN {[raised |-> FALSE, idx |-> dec]}
    ELSE {[raised |-> TRUE, idx |-> 0], [raised |-> FALSE, idx |-> 0]}

Resolved(idx) == idx \in 1 .. NDecBins

(***************************************************************************)
(* One raw draw of _generate_events: for each of sample_log_e, sample_psi  *)
(* and sample_ang_err, whether the value sampled for the event is NaN.     *)
(***************************************************************************)
RawDraw == [log_e_nan : BOOLEAN, psi_nan : BOOLEAN, ang_err_nan : BOOLEAN]

NoNaN(d) == ~d.log_e_nan /\ ~d.psi_nan /\ ~d.ang_err_nan

\* What the sampling chain can deliver for one event of declination bin idx.
\* An index that is no bin of the matrix is not constrained.
SampleOutcomes(idx) ==
    IF ~Resolved(idx) THEN RawDraw
    ELSE IF Coverage[idx] = "full" THEN {d \in RawDraw : NoNaN(d)}
    ELSE IF Coverage[idx] = "none" THEN {d \in RawDraw : ~NoNaN(d)}
    ELSE RawDraw

\* The raw draws of one batch of m events.
Batches(idx, m) == [1 .. m -> SampleOutcomes(idx)]

(***************************************************************************)
(* _generate_events                                                        *)
(***************************************************************************)
\* Mutant of isvalid: the angular error is left out of the test.
isvalid_no_ang_err(d) == ~(d.log_e_nan \/ d.psi_nan)

\* isvalid = np.invert(np.isnan(log_e) | np.isnan(psi) | np.isnan(ang_err))
isvalid(d) == ~(d.log_e_nan \/ d.psi_nan \/ d.ang_err_nan)

\* The event record written for one raw draw.
EventOf(d) ==
    [isvalid |-> isvalid(d), log_e_nan |-> d.log_e_nan,
     psi_nan |-> d.psi_nan, ang_err_nan |-> d.ang_err_nan]

\* numpy's arr[mask] = values for a 1-D values array of n_values elements and
\* a mask with n_true true entries: the values must have one element per
\* true entry, or be a single element (broadcast); else ValueError.
MaskAssignOk(n_values, n_true) == n_values = n_true \/ n_values = 1

\* events['ang_err'][isvalid] = ang_err : the whole ang_err array (one value
\* per drawn event) is assigned to the valid slots.
AngErrAssignOk(batch) ==
    MaskAssignOk(Len(batch), Len(SelectSeq(batch, isvalid)))

\* _generate_events(rss, src_dec, src_ra, dec_idx, flux_model, n_events) for
\* the raw draws `batch`: the exception it ends with, or the event table.
generate_events(batch) ==
    IF AngErrAssignOk(batch)
    THEN [exc |-> "none", rows |-> [i \in 1 .. Len(batch) |-> EventOf(batch[i])]]
    ELSE [exc |-> "ValueError", rows |-> <<>>]

(***************************************************************************)
(* generate_signal_events                                                  *)
(***************************************************************************)
RowIsValid(e) == e.isvalid

\* Mutant of CutInvalid: the cut is left out.
CutNothing(rows) == rows

\* events_ = events_[events_['isvalid']]
CutInvalid(rows) == SelectSeq(rows, RowIsValid)

\* events = events_ if events is None else np.concatenate((events, events_))
Accumulate(evts, rows) ==
    IF evts.none THEN Table(rows) ELSE Table(evts.rows \o rows)

SatAdd(a, b) == IF a + b > MaxRaw THEN MaxRaw ELSE a + b

GenInit ==
    /\ pc = "idle"
    /\ exc = "none"
    /\ n_events = 0
    /\ src_dec = 0
    /\ dec_idx = 0
    /\ n_evt_generated = 0
    /\ events = None
    /\ events_ = None
    /\ drawn = <<>>
    /\ n_evt = 0
    /\ ret = None
    /\ n_raw = 0

\* generate_signal_events is called: the declination bin is looked up and
\* the loop variables are initialised (lines 157-163).
Call(n, dec) ==
    /\ pc = "idle"
    /\ n_events' = n
    /\ src_dec' = dec
    /\ \E r \in get_true_dec_idx(dec) :
          /\ dec_idx' = r.idx
          /\ pc' = IF r.raised THEN "raised" ELSE "while"
          /\ exc' = IF r.raised THEN "ValueError" ELSE "none"
    /\ events' = None
    /\ n_evt_generated' = 0
    /\ UNCHANGED <<events_, drawn, n_evt, ret, n_raw>>
    /\ UNCHANGED mVars
    /\ UNCHANGED anaVars
    /\ UNCHANGED wVars

\* One iteration of the while loop (lines 164-177) with the raw draws batch.
Iterate(batch) ==
    /\ pc = "while"
    /\ n_evt_generated # n_events
    /\ n_evt' = n_events - n_evt_generated
    /\ Len(batch) = n_evt'
    /\ n_raw' = SatAdd(n_raw, Len(batch))
    /\ drawn' = batch
    /\ LET g == generate_events(batch)
           cut == CutInvalid(g.rows)
       IN  IF g.exc # "none"
           THEN /\ pc' = "raised"
                /\ exc' = g.exc
                /\ UNCHANGED <<events, events_, n_evt_generated>>
           ELSE /\ events_' = Table(cut)
                /\ n_evt_generated' = n_evt_generated + Len(cut)
                /\ events' = Accumulate(events, cut)
                /\ UNCHANGED <<pc, exc>>
    /\ UNCHANGED <<n_events, src_dec, dec_idx, ret>>
    /\ UNCHANGED mVars
    /\ UNCHANGED anaVars
    /\ UNCHANGED wVars

\* A batch is drawn and processed.
Draw ==
    \E batch \in Batches(dec_idx, n_events - n_evt_generated) : Iterate(batch)

\* A batch whose events are all valid is drawn and processed.
DrawAllValid ==
    \E batch \in [1 .. (n_events - n_evt_generated) ->
                     {d \in SampleOutcomes(dec_idx) : NoNaN(d)}] :
        Iterate(batch)

\* The loop condition fails: return events (line 179).
Return ==
    /\ pc = "while"
    /\ n_evt_generated = n_events
    /\ pc' = "returned"
    /\ ret' = events
    /\ UNCHANGED <<exc, n_events, src_dec, dec_idx, n_evt_generated, events,
                   events_, drawn, n_evt, n_raw>>
    /\ UNCHANGED mVars
    /\ UNCHANGED anaVars
    /\ UNCHANGED wVars

GenCall == \E n \in 0 .. MaxN, dec \in DecValues : Call(n, dec)

GenNext == GenCall \/ Draw \/ Return

(***************************************************************************)
(* core/weights.py: the objects handed to the services                     *)
(***************************************************************************)
\* A SourceHypoGroupManager: shg_list is the list of its groups, a group is
\* given by its source_list, a source by its weight.
SourceHypoGroupManager(shg_list) ==
    Obj("SourceHypoGroupManager", shg_list, {})

\* A DetSigYield instance whose gradient map has the keys gpidxs.
DetSigYield(gpidxs) == Obj("DetSigYield", <<>>, gpidxs)

\* One group of two sources.
MgrOneGroup == SourceHypoGroupManager(<< <<1, 1>> >>)

\* Two groups of one source each.
MgrTwoGroups == SourceHypoGroupManager(<< <<2>>, <<1>> >>)

\* Values passed as shg_mgr.
ShgMgrArgs == {MgrOneGroup, MgrTwoGroups, Other}

\* (2 datasets, 1 group) and (2 datasets, 2 groups) tables of DetSigYield
\* instances, a table with a row holding another object, and an argument
\* that is no sequence.
TableOneCol ==
    PyList(<< PyList(<<DetSigYield({1})>>), PyList(<<DetSigYield({1})>>) >>)

TableTwoCols ==
    PyList(<< PyList(<<DetSigYield({1}), DetSigYield({})>>),
              PyList(<<DetSigYield({1}), DetSigYield({2})>>) >>)

TableBadElem ==
    PyList(<< PyList(<<DetSigYield({1})>>), PyList(<<Other>>) >>)

\* Values passed as detsigyields.
DetSigYieldsArgs == {TableOneCol, TableTwoCols, TableBadElem, DetSigYield({1})}

\* The SrcDetSigYieldWeightsService instance, as an argument.
TheService == Obj("SrcDetSigYieldWeightsService", <<>>, {})

\* Values passed as src_detsigyield_weights_service.
ServiceArgs == {TheService, Other}

\* Values a gradient takes for one source.
GradVals == {-1, 1}

Max(a, b) == IF a >= b THEN a ELSE b

Min(a, b) == IF a <= b THEN a ELSE b

RECURSIVE SumSeq(_)
\* Sum of a sequence of integers.
SumSeq(s) == IF s = <<>> THEN 0 ELSE Head(s) + SumSeq(Tail(s))

\* skyllh.core.py.issequence
issequence(o) == isinstance(o, "list")

\* skyllh.core.py.issequenceof
issequenceof(o, T) ==
    issequence(o) /\ \A i \in 1 .. Len(o.items) : isinstance(o.items[i], T)

\* SourceHypoGroupManager.n_src_hypo_groups
n_src_hypo_groups(mgr) == Len(mgr.items)

\* SourceHypoGroupManager.n_sources
n_sources(mgr) == SumSeq([g \in 1 .. Len(mgr.items) |-> Len(mgr.items[g])])

(***************************************************************************)
(* SrcDetSigYieldWeightsService: construction and change_shg_mgr           *)
(***************************************************************************)
\* Mutant of set_shg_mgr_ok: any object is taken as the manager.
set_shg_mgr_any(shg_mgr) == TRUE

\* _set_shg_mgr: the type check that guards the assignment of _shg_mgr.
set_shg_mgr_ok(shg_mgr) == isinstance(shg_mgr, "SourceHypoGroupManager")

\* __init__: if not issequence(detsigyields): detsigyields = [detsigyields]
as_sequence(detsigyields) ==
    IF issequence(detsigyields) THEN detsigyields.items ELSE <<detsigyields>>

\* __init__: every item of detsigyields is a sequence of DetSigYield.
rows_ok(rows) ==
    \A i \in 1 .. Len(rows) : issequenceof(rows[i], "DetSigYield")

\* np.atleast_2d(detsigyields) for rows of equal length.
atleast_2d(rows) == [i \in 1 .. Len(rows) |-> rows[i].items]

\* detsigyield_arr.shape[1]
shape1(arr) == Len(arr[1])

\* Mutant of shape_ok: the shape of the table is not compared.
shape_unchecked(arr, mgr) == TRUE

\* __init__: the table has one column per source hypothesis group.
shape_ok(arr, mgr) == shape1(arr) = n_src_hypo_groups(mgr)

\* create_src_recarray_list_list: the loops index shg_list with
\* 0..n_shgs-1, which fails when the manager has fewer groups.
recarray_index_ok(mgr, arr) == shape1(arr) <= Len(mgr.items)

\* create_src_recarray_list_list: per dataset and group, the record array
\* of the group's sources (given by the group's source list).
create_src_recarray_list_list(mgr, arr) ==
    [d \in 1 .. Len(arr) |-> [g \in 1 .. shape1(arr) |-> mgr.items[g]]]

\* Mutant of create_src_weight_array_list: the vectors are not rebuilt.
create_src_weight_array_list_stale(mgr) == _src_weight_array_list

\* create_src_weight_array_list: per group, the weights of its sources.
create_src_weight_array_list(mgr) ==
    [g \in 1 .. Len(mgr.items) |-> mgr.items[g]]

NoCall == [op |-> "none", arg |-> NoObj, arg2 |-> NoObj, pre |-> <<>>]

CallOf(op, arg, arg2, pre) ==
    [op |-> op, arg |-> arg, arg2 |-> arg2, pre |-> pre]

\* What change_shg_mgr may replace.
MgrState == <<_shg_mgr, _src_recarray_list_list, _src_weight_array_list>>

\* No get_weights call was made yet.
NoRead == [read |-> FALSE, a_jk |-> None, a_jk_grads |-> None]

\* No get_weights call was made yet: the reader holds no object.
NoHold == [read |-> FALSE, obj |-> 0, idle |-> FALSE,
           a_jk |-> None, a_jk_grads |-> None]

\* The services before their construction, in a run that makes up to calcs
\* calls of calculate.
WInitWith(calcs) ==
    /\ constructed = FALSE
    /\ _shg_mgr = NoObj
    /\ _detsigyield_arr = <<>>
    /\ _src_recarray_list_list = <<>>
    /\ _src_weight_array_list = <<>>
    /\ _a_jk = None
    /\ _a_jk_grads = None
    /\ c_pc = "idle"
    /\ sidx = 0
    /\ shg_idx = 0
    /\ ds_idx = 0
    /\ calcs_left = calcs
    /\ f_constructed = FALSE
    /\ _f_j = None
    /\ _f_j_grads = None
    /\ f_in = <<None, None>>
    /\ last_call = NoCall
    /\ w_exc = "none"
    /\ got = NoRead
    /\ Y_log = <<>>
    /\ a_jk_mgr = NoObj
    /\ a_jk_obj = 0
    /\ held = NoHold

WInit == WInitWith(1)

calcVars == <<_a_jk, _a_jk_grads, c_pc, sidx, shg_idx, ds_idx, calcs_left>>

fVars == <<f_constructed, _f_j, _f_j_grads, f_in>>

\* SrcDetSigYieldWeightsService(shg_mgr, detsigyields).  A constructor that
\* raises produces no object: the attributes it had set are lost with it.
Construct(shg_mgr, detsigyields) ==
    /\ ~constructed
    /\ last_call' = CallOf("init", shg_mgr, detsigyields, <<>>)
    /\ LET rows == as_sequence(detsigyields)
           arr == atleast_2d(rows)
       IN  IF ~set_shg_mgr_ok(shg_mgr)
           THEN /\ w_exc' = "TypeError"
                /\ UNCHANGED <<constructed, _shg_mgr, _detsigyield_arr,
                               _src_recarray_list_list,
                               _src_weight_array_list>>
           ELSE IF ~rows_ok(rows)
           THEN /\ w_exc' = "TypeError"
                /\ UNCHANGED <<constructed, _shg_mgr, _detsigyield_arr,
                               _src_recarray_list_list,
                               _src_weight_array_list>>
           ELSE IF ~shape_ok(arr, shg_mgr)
           THEN /\ w_exc' = "ValueError"
                /\ UNCHANGED <<constructed, _shg_mgr, _detsigyield_arr,
                               _src_recarray_list_list,
                               _src_weight_array_list>>
           ELSE IF ~recarray_index_ok(shg_mgr, arr)
           THEN /\ w_exc' = "IndexError"
                /\ UNCHANGED <<constructed, _shg_mgr, _detsigyield_arr,
                               _src_recarray_list_list,
                               _src_weight_array_list>>
           ELSE /\ w_exc' = "none"
                /\ constructed' = TRUE
                /\ _shg_mgr' = shg_mgr
                /\ _detsigyield_arr' = arr
                /\ _src_recarray_list_list' =
                       create_src_recarray_list_list(shg_mgr, arr)
                /\ _src_weight_array_list' =
                       create_src_weight_array_list(shg_mgr)
    /\ UNCHANGED calcVars
    /\ UNCHANGED fVars
    /\ UNCHANGED ghostVars
    /\ UNCHANGED genVars

\* change_shg_mgr(shg_mgr)
ChangeShgMgr(shg_mgr) ==
    /\ constructed
    /\ c_pc = "idle"
    /\ last_call' = CallOf("change_shg_mgr", shg_mgr, NoObj, MgrState)
    /\ IF ~set_shg_mgr_ok(shg_mgr)
       THEN /\ w_exc' = "TypeError"
            /\ UNCHANGED <<_shg_mgr, _src_recarray_list_list,
                           _src_weight_array_list>>
       ELSE IF ~recarray_index_ok(shg_mgr, _detsigyield_arr)
       THEN /\ w_exc' = "IndexError"
            /\ _shg_mgr' = shg_mgr
            /\ UNCHANGED <<_src_recarray_list_list, _src_weight_array_list>>
       ELSE /\ w_exc' = "none"
            /\ _shg_mgr' = shg_mgr
            /\ _src_recarray_list_list' =
                   create_src_recarray_list_list(shg_mgr, _detsigyield_arr)
            /\ _src_weight_array_list' =
                   create_src_weight_array_list(shg_mgr)
    /\ UNCHANGED <<constructed, _detsigyield_arr>>
    /\ UNCHANGED calcVars
    /\ UNCHANGED fVars
    /\ UNCHANGED ghostVars
    /\ UNCHANGED genVars

(***************************************************************************)
(* SrcDetSigYieldWeightsService.calculate                                  *)
(***************************************************************************)
\* n_datasets: self._detsigyield_arr.shape[0]
n_datasets == Len(_detsigyield_arr)

\* An entry of the yield matrix: its value v and the number w of writes it
\* got since np.empty allocated it.  An entry with w = 0 is uninitialised:
\* it holds whatever the memory held, and v is not its value.
Entry(v, w) == [v |-> v, w |-> w]

\* np.empty((J, K), dtype=np.double)
np_empty(J, K) == [j \in 1 .. J |-> [k \in 1 .. K |-> Entry(0, 0)]]

\* np.zeros((J, K), dtype=np.double)
np_zeros(J, K) == [j \in 1 .. J |-> [k \in 1 .. K |-> 0]]

\* What a DetSigYield call returns for L sources: it raises, or it returns
\* the yields Yg (one per source) and the gradient map Yg_grads, keyed by
\* the parameter indices of the instance, one gradient per source.
Responses(detsigyield, L) ==
    {[raised |-> TRUE, Yg |-> <<>>, Yg_grads |-> <<>>]}
    \cup {[raised |-> FALSE, Yg |-> y, Yg_grads |-> g] :
             y \in [1 .. L -> 0 .. MaxY],
             g \in [detsigyield.keys -> [1 .. L -> GradVals]]}

\* numpy broadcasting of two 1-D arrays of lengths n1 and n2.
broadcast_ok(n1, n2) == n1 = n2 \/ n1 = 1 \/ n2 = 1

Elem(s, i) == IF Len(s) = 1 THEN s[1] ELSE s[i]

\* src_weights * Yg
np_mul(w, y) ==
    [i \in 1 .. Max(Len(w), Len(y)) |-> Elem(w, i) * Elem(y, i)]

\* Mutant of slice_cols: the slice starts one column early.
slice_cols_early(s, n, K) == {k \in 1 .. K : s <= k /\ k <= s + n}

\* The columns slice(sidx, sidx+shg_n_src) selects of K columns.
slice_cols(s, n, K) == {k \in 1 .. K : s < k /\ k <= s + n}

\* Assigning n_values values to a slice of n_cols columns.
slice_assign_ok(n_values, n_cols) == n_values = n_cols \/ n_values = 1

\* The number of iterations of zip(shg_list, _src_weight_array_list).
n_zip == Min(Len(_shg_mgr.items), Len(_src_weight_array_list))

\* The dict's value for key p, made by the defaultdict's factory if absent.
grads_get(grads, p, J, K) ==
    IF p \in DOMAIN grads THEN grads[p] ELSE np_zeros(J, K)

\* Mutant of fresh_obj: calculate fills the objects it already has.
same_obj(obj) == obj

\* np.empty(...) and defaultdict(...) make objects that did not exist before
\* the call; an allocation is named by its number.
fresh_obj(obj) == obj + 1

\* What a reader sees in the objects it holds after a step of the service:
\* the objects are the reader's own references to what get_weights
\* returned, so a write into the objects the service is bound to shows in
\* them exactly when they are the same objects.
HeldAfter ==
    IF held.read /\ held.obj = a_jk_obj'
    THEN [held EXCEPT !.a_jk = _a_jk', !.a_jk_grads = _a_jk_grads']
    ELSE held

\* calculate, up to its loop: the fresh matrix and gradient dict replace the
\* stored ones.
CalcBegin ==
    /\ constructed
    /\ c_pc = "idle"
    /\ calcs_left > 0
    /\ calcs_left' = calcs_left - 1
    /\ last_call' = CallOf("calculate", NoObj, NoObj, <<>>)
    /\ w_exc' = "none"
    /\ _a_jk' = Table(np_empty(n_datasets, n_sources(_shg_mgr)))
    /\ _a_jk_grads' = Table(<<>>)
    /\ sidx' = 0
    /\ shg_idx' = 1
    /\ ds_idx' = 1
    /\ c_pc' = IF n_zip = 0 \/ n_datasets = 0 THEN "idle" ELSE "loop"
    /\ Y_log' = <<>>
    /\ a_jk_mgr' = _shg_mgr
    /\ a_jk_obj' = fresh_obj(a_jk_obj)
    /\ held' = HeldAfter
    /\ UNCHANGED got
    /\ UNCHANGED <<constructed, _shg_mgr, _detsigyield_arr,
                   _src_recarray_list_list, _src_weight_array_list>>
    /\ UNCHANGED fVars
    /\ UNCHANGED genVars

\* The loop indices after the block (shg_idx, ds_idx), or the end of the
\* loops.
CalcAdvance(shg_n_src) ==
    IF ds_idx < n_datasets
    THEN /\ ds_idx' = ds_idx + 1
         /\ UNCHANGED <<sidx, shg_idx, c_pc>>
    ELSE /\ ds_idx' = 1
         /\ sidx' = sidx + shg_n_src
         /\ shg_idx' = shg_idx + 1
         /\ c_pc' = IF shg_idx < n_zip THEN "loop" ELSE "idle"

\* calculate raises in its loop: the call ends, what it wrote stays.
CalcRaise(e) ==
    /\ w_exc' = e
    /\ c_pc' = "idle"
    /\ UNCHANGED <<_a_jk, _a_jk_grads, sidx, shg_idx, ds_idx, Y_log>>

\* One pass of the inner loop of calculate: the detector signal yield of
\* dataset ds_idx and group shg_idx is evaluated and its block written.
CalcBlock ==
    /\ c_pc = "loop"
    /\ LET shg == _shg_mgr.items[shg_idx]
           src_weights == _src_weight_array_list[shg_idx]
           shg_n_src == Len(shg)
           J == Len(_a_jk.rows)
           K == Len(_a_jk.rows[1])
           cols == slice_cols(sidx, shg_n_src, K)
       IN  IF shg_idx > Len(_detsigyield_arr[ds_idx])
              \/ shg_idx > Len(_src_recarray_list_list[ds_idx])
           THEN CalcRaise("IndexError")
           ELSE
             \E resp \in Responses(
                     _detsigyield_arr[ds_idx][shg_idx],
                     Len(_src_recarray_list_list[ds_idx][shg_idx])) :
               IF resp.raised
               THEN CalcRaise("Exception")
               ELSE IF ~broadcast_ok(Len(src_weights), Len(resp.Yg))
                       \/ ~slice_assign_ok(
                              Max(Len(src_weights), Len(resp.Yg)),
                              Cardinality(cols))
               THEN CalcRaise("ValueError")
               ELSE
                 LET prod == np_mul(src_weights, resp.Yg)
                     keys == DOMAIN resp.Yg_grads
                     old == _a_jk_grads.rows
                 IN  /\ _a_jk' = Table(
                            [j \in 1 .. J |-> [k \in 1 .. K |->
                               IF j = ds_idx /\ k \in cols
                               THEN Entry(Elem(prod, k - sidx),
                                          _a_jk.rows[j][k].w + 1)
                               ELSE _a_jk.rows[j][k]]])
                     /\ _a_jk_grads' = Table(
                            [p \in DOMAIN old \cup keys |->
                               IF p \in keys
                               THEN [j \in 1 .. J |-> [k \in 1 .. K |->
                                      IF j = ds_idx /\ k \in cols
                                      THEN Elem(np_mul(src_weights,
                                                       resp.Yg_grads[p]),
                                                k - sidx)
                                      ELSE grads_get(old, p, J, K)[j][k]]]
                               ELSE old[p]])
                     /\ Y_log' = Append(Y_log,
                            [ds |-> ds_idx, shg |-> shg_idx, sidx |-> sidx,
                             Yg |-> resp.Yg, Yg_grads |-> resp.Yg_grads])
                     /\ CalcAdvance(shg_n_src)
                     /\ UNCHANGED w_exc
    /\ UNCHANGED <<constructed, _shg_mgr, _detsigyield_arr,
                   _src_recarray_list_list, _src_weight_array_list,
                   calcs_left, last_call>>
    /\ UNCHANGED <<got, a_jk_mgr, a_jk_obj>>
    /\ held' = HeldAfter
    /\ UNCHANGED fVars
    /\ UNCHANGED genVars

(***************************************************************************)
(* Floating-point quotients.  A quotient is kept as the pair <<n, d>> of   *)
(* its reduced fraction, d > 0; a division by zero gives what IEEE 754     *)
(* gives: <<1, 0>> is +Inf, <<-1, 0>> is -Inf, <<0, 0>> is NaN.  Rounding  *)
(* is not modelled: equalities of quotients below stand for equalities up  *)
(* to the floating-point tolerance.  Unknown stands for a quotient of      *)
(* uninitialised memory.                                                   *)
(***************************************************************************)
Abs(x) == IF x < 0 THEN -x ELSE x

Sign(x) == IF x > 0 THEN 1 ELSE IF x < 0 THEN -1 ELSE 0

RECURSIVE GCD(_, _)
GCD(a, b) == IF b = 0 THEN a ELSE GCD(b, a % b)

NaN == <<0, 0>>

Unknown == <<0, -1>>

\* x / y as numpy divides two doubles (no exception on a zero divisor).
np_div(x, y) ==
    IF y = 0 THEN <<Sign(x), 0>>
    ELSE LET g == GCD(Abs(x), Abs(y))
         IN  <<(Sign(y) * x) \div g, Abs(y) \div g>>

IsFinite(q) == q[2] > 0

(***************************************************************************)
(* DatasetSignalWeightFactorsService                                       *)
(***************************************************************************)
\* The entries of the matrix were all written.
Initialised(a_jk) ==
    \A j \in 1 .. Len(a_jk) : \A k \in 1 .. Len(a_jk[j]) : a_jk[j][k].w > 0

\* Mutant of sum_axis1: the last source is left out of the row sums.
sum_axis1_drop_last(m) ==
    [j \in 1 .. Len(m) |-> SumSeq(SubSeq(m[j], 1, Len(m[j]) - 1))]

\* np.sum(m, axis=1)
sum_axis1(m) == [j \in 1 .. Len(m) |-> SumSeq(m[j])]

\* Mutant of sum_all: only the first dataset is summed.
sum_all_first_row(m) == SumSeq(m[1])

\* np.sum(m)
sum_all(m) == SumSeq([j \in 1 .. Len(m) |-> SumSeq(m[j])])

\* The values of the matrix entries.
Values(a_jk) ==
    [j \in 1 .. Len(a_jk) |-> [k \in 1 .. Len(a_jk[j]) |-> a_jk[j][k].v]]

\* Mutant of quotient_rule: the gradient of the row stands for the gradient
\* of the total.
quotient_rule_row_grad(a_j_grad, a, a_j, a_grad) ==
    np_div(a_j_grad * a - a_j * a_j_grad, a * a)

\* Mutant of quotient_rule: the sign of the second term is flipped.
quotient_rule_plus(a_j_grad, a, a_j, a_grad) ==
    np_div(a_j_grad * a + a_j * a_grad, a * a)

\* (a_j_grads * a - a_j * a_grads) / a**2 for one dataset
quotient_rule(a_j_grad, a, a_j, a_grad) ==
    np_div(a_j_grad * a - a_j * a_grad, a * a)

\* DatasetSignalWeightFactorsService(src_detsigyield_weights_service)
FactorsConstruct(service) ==
    /\ ~f_constructed
    /\ c_pc = "idle"
    /\ service = TheService => constructed
    /\ last_call' = CallOf("f_init", service, NoObj, <<>>)
    /\ IF ~isinstance(service, "SrcDetSigYieldWeightsService")
       THEN /\ w_exc' = "TypeError"
            /\ UNCHANGED f_constructed
       ELSE /\ w_exc' = "none"
            /\ f_constructed' = TRUE
    /\ UNCHANGED <<_f_j, _f_j_grads, f_in>>
    /\ UNCHANGED <<constructed, _shg_mgr, _detsigyield_arr,
                   _src_recarray_list_list, _src_weight_array_list>>
    /\ UNCHANGED calcVars
    /\ UNCHANGED ghostVars
    /\ UNCHANGED genVars

\* DatasetSignalWeightFactorsService.calculate()
FactorsCalculate ==
    /\ f_constructed
    /\ c_pc = "idle"
    /\ last_call' = CallOf("f_calculate", NoObj, NoObj, <<>>)
    /\ IF _a_jk.none
       THEN \* np.sum(None, axis=1) raises
            /\ w_exc' = "AxisError"
            /\ UNCHANGED <<_f_j, _f_j_grads, f_in>>
       ELSE LET a_jk == _a_jk.rows
                a_jk_grads == _a_jk_grads.rows
                known == Initialised(a_jk)
                a_j == sum_axis1(Values(a_jk))
                a == sum_all(Values(a_jk))
            IN  /\ w_exc' = "none"
                /\ f_in' = <<_a_jk, _a_jk_grads>>
                /\ _f_j' = Table(
                       [j \in 1 .. Len(a_jk) |->
                          IF known THEN np_div(a_j[j], a) ELSE Unknown])
                /\ _f_j_grads' = Table(
                       [gpidx \in DOMAIN a_jk_grads |->
                          LET a_j_grads == sum_axis1(a_jk_grads[gpidx])
                              a_grads == sum_all(a_jk_grads[gpidx])
                          IN  [j \in 1 .. Len(a_jk) |->
                                 IF known
                                 THEN quotient_rule(a_j_grads[j], a,
                                                    a_j[j], a_grads)
                                 ELSE Unknown]])
    /\ UNCHANGED f_constructed
    /\ UNCHANGED <<constructed, _shg_mgr, _detsigyield_arr,
                   _src_recarray_list_list, _src_weight_array_list>>
    /\ UNCHANGED calcVars
    /\ UNCHANGED ghostVars
    /\ UNCHANGED genVars

(***************************************************************************)
(* Readers of SrcDetSigYieldWeightsService                                 *)
(***************************************************************************)
\* get_weights(): return (self._a_jk, self._a_jk_grads).  The service has no
\* lock, so the call can be made at any point of a running calculate as
\* well as after a calculate that raised.
GetWeights ==
    /\ constructed
    /\ got' = [read |-> TRUE, a_jk |-> _a_jk, a_jk_grads |-> _a_jk_grads]
    /\ held' = [read |-> TRUE, obj |-> a_jk_obj, idle |-> c_pc = "idle",
                a_jk |-> _a_jk, a_jk_grads |-> _a_jk_grads]
    /\ UNCHANGED <<Y_log, a_jk_mgr, a_jk_obj, last_call, w_exc>>
    /\ UNCHANGED <<constructed, _shg_mgr, _detsigyield_arr,
                   _src_recarray_list_list, _src_weight_array_list>>
    /\ UNCHANGED calcVars
    /\ UNCHANGED fVars
    /\ UNCHANGED genVars

\* The indices of the global fit parameters; no model depends on the last.
GlobalParams == {1, 2, 3}

\* A reader evaluates a_jk_grads[gpidx] on the map get_weights returned.
\* The map is the defaultdict of calculate: for a key it does not hold, its
\* factory makes a matrix of zeros and the map keeps it under the key.
LookUp(gpidx) ==
    /\ got.read
    /\ ~got.a_jk_grads.none
    /\ ~_a_jk_grads.none
    /\ _a_jk_grads' =
           IF gpidx \in DOMAIN _a_jk_grads.rows
           THEN _a_jk_grads
           ELSE Table([p \in DOMAIN _a_jk_grads.rows \cup {gpidx} |->
                         grads_get(_a_jk_grads.rows, p, n_datasets,
                                   n_sources(_shg_mgr))])
    /\ UNCHANGED <<_a_jk, c_pc, sidx, shg_idx, ds_idx, calcs_left>>
    /\ UNCHANGED <<constructed, _shg_mgr, _detsigyield_arr,
                   _src_recarray_list_list, _src_weight_array_list>>
    /\ UNCHANGED <<last_call, w_exc>>
    /\ UNCHANGED <<got, Y_log, a_jk_mgr, a_jk_obj>>
    /\ held' = HeldAfter
    /\ UNCHANGED fVars
    /\ UNCHANGED genVars

(***************************************************************************)
(* PublicDataSignalGenerator (analyses/i3/trad_ps/signal_generator.py):    *)
(* generate_signal_events over the source hypothesis groups, the datasets  *)
(* and the sources.  The random state service is the sequence rss of the   *)
(* values it delivers; a value is consumed by a Poisson draw or by the     *)
(* sampling of one event.                                                  *)
(***************************************************************************)
\* The variables of the dataset-level call.
dsVars == <<pc, exc, n_events, src_dec, dec_idx, n_evt_generated, events,
            events_, drawn, n_evt, ret, n_raw>>

\* The values rss delivers.  For the sampling of an event, 0 is a draw for
\* which a PDF is missing (NaN) and v > 0 a draw that gives the value v;
\* for rss.random.poisson it is the count drawn.
RssValues == {0, 1, 2}

\* What np.empty memory may hold.
Uninit == {7, 8}

\* The per-dataset weights llhratio.dataset_signal_weights may return, as
\* numerators over their sum: the weights of a group sum to 1.
WeightChoices == {<<1, 1>>, <<2, 0>>}

\* The raw draw of _generate_events made from the rss value v.
RawDrawOf(v) ==
    [log_e_nan |-> FALSE, psi_nan |-> v = 0, ang_err_nan |-> v = 0]

\* _generate_events for the rss values vals: the rows carry the value drawn
\* (for the rows that are not valid: what np.empty left there) and, as a
\* ghost, the group and source they were generated for.
BatchRows(vals, garbage, org) ==
    LET g == generate_events([i \in 1 .. Len(vals) |-> RawDrawOf(vals[i])])
    IN  [exc |-> g.exc,
         rows |-> [i \in 1 .. Len(g.rows) |->
                     [isvalid |-> g.rows[i].isvalid,
                      val |-> IF g.rows[i].isvalid THEN vals[i] ELSE garbage,
                      shg |-> org[1], src |-> org[2]]]]

RECURSIVE while_loop(_, _, _, _, _, _)
\* The while loop of the dataset-level generate_signal_events, reading the
\* values rest: the exception it ends with, the events it returns and the
\* values it leaves.  "starved": the run needs more than MaxDraws values.
while_loop(n, n_gen, evts, rest, garbage, org) ==
    IF n_gen = n THEN [exc |-> "none", ret |-> evts, rest |-> rest]
    ELSE IF Len(rest) < n - n_gen
    THEN [exc |-> "starved", ret |-> None, rest |-> rest]
    ELSE LET need == n - n_gen
             b == BatchRows(SubSeq(rest, 1, need), garbage, org)
             cut == CutInvalid(b.rows)
             left == SubSeq(rest, need + 1, Len(rest))
         IN  IF b.exc # "none"
             THEN [exc |-> b.exc, ret |-> None, rest |-> left]
             ELSE while_loop(n, n_gen + Len(cut), Accumulate(evts, cut),
                             left, garbage, org)

\* Mutant of sig_gen_generate_signal_events: the events start as an empty
\* table.
sig_gen_generate_signal_events_table(n, rest, garbage, org) ==
    while_loop(n, 0, Table(<<>>), rest, garbage, org)

\* sig_gen.generate_signal_events(rss, src.dec, src.ra, shg.fluxmodel,
\* n_events) for a source inside the declination range of the matrix.
sig_gen_generate_signal_events(n, rest, garbage, org) ==
    while_loop(n, 0, None, rest, garbage, org)

\* Mutant of n_events_of_source: the count is divided among the sources.
n_events_split(n, n_src) == n \div n_src

\* The argument n_events=n_events of the call for one source of a group of
\* n_src sources (line 276).
n_events_of_source(n, n_src) == n

\* int_cast(w_mean, ...) of the non-negative w_mean = num / den.
int_cast(num, den) == num \div den

\* rss.random.poisson(w_mean) for the rss value v.
poisson_draw(num, v) == IF num = 0 THEN 0 ELSE v

\* The outcome of a run: how it ended, what it returned, how many values of
\* rss it consumed.
Outcome ==
    [pc |-> m_pc, exc |-> m_exc, tot |-> tot_n_events,
     dict |-> signal_events_dict, used |-> MaxDraws - Len(rss)]

NoOutcome ==
    [pc |-> "idle", exc |-> "none", tot |-> 0, dict |-> <<>>, used |-> 0]

NoArgs ==
    [mean |-> 0, poisson |-> FALSE, mgr |-> NoObj, weights |-> <<>>,
     stream |-> <<>>]

MInit ==
    /\ m_pc = "idle"
    /\ m_exc = "none"
    /\ m_args = NoArgs
    /\ rss = <<>>
    /\ m_shg = 0
    /\ m_ds = 0
    /\ m_src = 0
    /\ m_n_events = 0
    /\ tot_n_events = 0
    /\ signal_events_dict = <<>>
    /\ m_log = <<>>
    /\ m_calls = <<>>
    /\ m_sum_w_mean = 0
    /\ m_run = 1
    /\ m_first = NoOutcome

\* Lines 240-243: shg_list, tot_n_events = 0, signal_events_dict = {}.
MStart ==
    /\ m_pc' = "shg"
    /\ m_exc' = "none"
    /\ m_shg' = 1
    /\ m_ds' = 0
    /\ m_src' = 0
    /\ m_n_events' = 0
    /\ tot_n_events' = 0
    /\ signal_events_dict' = <<>>
    /\ m_log' = <<>>
    /\ m_calls' = <<>>
    /\ m_sum_w_mean' = 0

\* generate_signal_events(rss, mean, poisson) is called on a generator of
\* the manager mgr whose llhratio returns the dataset weights weights[g]
\* for group g.
MCall(mean, poisson, mgr, weights, stream) ==
    /\ m_pc = "idle"
    /\ m_args' = [mean |-> mean, poisson |-> poisson, mgr |-> mgr,
                  weights |-> weights, stream |-> stream]
    /\ rss' = stream
    /\ MStart
    /\ UNCHANGED <<m_run, m_first>>
    /\ UNCHANGED dsVars
    /\ UNCHANGED anaVars
    /\ UNCHANGED wVars

\* for shg in shg_list: the weights of the group are computed (line 249).
MGroup ==
    /\ m_pc = "shg"
    /\ m_shg <= Len(m_args.mgr.items)
    /\ m_ds' = 1
    /\ m_pc' = "ds"
    /\ UNCHANGED <<m_exc, m_args, rss, m_shg, m_src, m_n_events, tot_n_events,
                   signal_events_dict, m_log, m_calls, m_sum_w_mean, m_run,
                   m_first>>
    /\ UNCHANGED dsVars
    /\ UNCHANGED anaVars
    /\ UNCHANGED wVars

\* for (ds_idx, (sig_gen, w)) in enumerate(zip(sig_gen_list, weights)):
\* lines 252-267, or the end of the loop.
MDataset ==
    /\ m_pc = "ds"
    /\ LET w == m_args.weights[m_shg]
           den == SumSeq(w)
       IN  IF m_ds > Len(w)
           THEN /\ m_shg' = m_shg + 1
                /\ m_pc' = "shg"
                /\ UNCHANGED <<rss, m_ds, m_src, m_n_events, tot_n_events,
                               m_sum_w_mean>>
           ELSE IF m_args.poisson /\ rss = <<>>
           THEN /\ m_pc' = "starved"
                /\ UNCHANGED <<rss, m_shg, m_ds, m_src, m_n_events,
                               tot_n_events, m_sum_w_mean>>
           ELSE LET num == m_args.mean * w[m_ds]
                    n == IF m_args.poisson
                         THEN poisson_draw(num, Head(rss))
                         ELSE int_cast(num, den)
                IN  /\ rss' = IF m_args.poisson THEN Tail(rss) ELSE rss
                    /\ m_n_events' = n
                    /\ tot_n_events' = tot_n_events + n
                    /\ m_sum_w_mean' = m_sum_w_mean + num
                    /\ m_src' = 1
                    /\ m_pc' = "src"
                    /\ UNCHANGED <<m_shg, m_ds>>
    /\ UNCHANGED <<m_exc, m_args, signal_events_dict, m_log, m_calls, m_run,
                   m_first>>
    /\ UNCHANGED dsVars
    /\ UNCHANGED anaVars
    /\ UNCHANGED wVars

\* Lines 281-284: signal_events_dict[ds_idx] = events_ for the first source
\* of a group, signal_events_dict[ds_idx].append(events_) for the others.
dict_store(d, ds, src_idx, rows) ==
    [k \in DOMAIN d \cup {ds} |->
        IF k # ds THEN d[k]
        ELSE IF src_idx = 1 THEN rows
        ELSE d[ds] \o rows]

\* for (shg_src_idx, src) in enumerate(src_list): lines 271-284, or the end
\* of the loop.
MSource ==
    /\ m_pc = "src"
    /\ IF m_src > Len(m_args.mgr.items[m_shg])
       THEN /\ m_ds' = m_ds + 1
            /\ m_pc' = "ds"
            /\ UNCHANGED <<m_exc, rss, m_src, signal_events_dict, m_log,
                           m_calls>>
       ELSE \E garbage \in Uninit :
              LET n == n_events_of_source(
                           m_n_events, Len(m_args.mgr.items[m_shg]))
                  r == sig_gen_generate_signal_events(
                           n, rss, garbage, <<m_shg, m_src>>)
                  call == [shg |-> m_shg, ds |-> m_ds, src |-> m_src,
                           n_events |-> n,
                           used |-> Len(rss) - Len(r.rest), ret |-> r.ret]
              IN  IF r.exc = "starved"
                  THEN /\ m_pc' = "starved"
                       /\ UNCHANGED <<m_exc, rss, m_ds, m_src,
                                      signal_events_dict, m_log, m_calls>>
                  ELSE IF r.exc # "none"
                  THEN /\ m_pc' = "raised"
                       /\ m_exc' = r.exc
                       /\ rss' = r.rest
                       /\ m_calls' = Append(m_calls, call)
                       /\ UNCHANGED <<m_ds, m_src, signal_events_dict, m_log>>
                  ELSE /\ rss' = r.rest
                       /\ m_src' = m_src + 1
                       /\ m_calls' = Append(m_calls, call)
                       /\ UNCHANGED <<m_pc, m_exc, m_ds>>
                       /\ IF r.ret.none
                          THEN UNCHANGED <<signal_events_dict, m_log>>
                          ELSE /\ signal_events_dict' =
                                      dict_store(signal_events_dict, m_ds,
                                                 m_src, r.ret.rows)
                               /\ m_log' = Append(m_log,
                                      [ds |-> m_ds, shg |-> m_shg,
                                       src |-> m_src, rows |-> r.ret.rows])
    /\ UNCHANGED <<m_args, m_shg, m_n_events, tot_n_events, m_sum_w_mean,
                   m_run, m_first>>
    /\ UNCHANGED dsVars
    /\ UNCHANGED anaVars
    /\ UNCHANGED wVars

\* return tot_n_events, signal_events_dict (line 286).
MReturn ==
    /\ m_pc = "shg"
    /\ m_shg > Len(m_args.mgr.items)
    /\ m_pc' = "returned"
    /\ UNCHANGED <<m_exc, m_args, rss, m_shg, m_ds, m_src, m_n_events,
                   tot_n_events, signal_events_dict, m_log, m_calls,
                   m_sum_w_mean, m_run, m_first>>
    /\ UNCHANGED dsVars
    /\ UNCHANGED anaVars
    /\ UNCHANGED wVars

\* The call is made a second time on the same generator, with the same
\* arguments and a random state service that delivers the same values.
MRepeat ==
    /\ m_run = 1
    /\ m_pc \in {"returned", "raised"}
    /\ m_first' = Outcome
    /\ m_run' = 2
    /\ rss' = m_args.stream
    /\ MStart
    /\ UNCHANGED m_args
    /\ UNCHANGED dsVars
    /\ UNCHANGED anaVars
    /\ UNCHANGED wVars

\* A call with any arguments, on a generator of either manager.
MCallAny ==
    /\ m_pc = "idle"
    /\ \E mean \in 0 .. MaxMean, poisson \in BOOLEAN,
          mgr \in {MgrOneGroup, MgrTwoGroups},
          stream \in [1 .. MaxDraws -> RssValues] :
          \E weights \in [1 .. Len(mgr.items) -> WeightChoices] :
              MCall(mean, poisson, mgr, weights, stream)

MNext ==
    \/ MCallAny
    \/ MGroup
    \/ MDataset
    \/ MSource
    \/ MReturn
    \/ MRepeat


(***************************************************************************)
(* I3PointLikeSourceFixedFluxDetSigEff.get and                             *)
(* I3PointLikeSourcePowerLawFluxDetSigEff.get (skylab/i3/detsigeff.py).    *)
(* The object is taken with its spline constructed.  sin(dec) is kept on   *)
(* a grid of five cells; a binning covers a range of cells.                *)
(***************************************************************************)
\* The values of np.sin(src_dec), as cells of a grid.
SinDecValues == -2 .. 2

\* The values of the flux parameter gamma of a source.
GammaValues == {1, 2}

\* The sin(dec) binning definitions: lower_edge < upper_edge.
Binnings ==
    {b \in [lower_edge : SinDecValues, upper_edge : SinDecValues] :
        b.lower_edge < b.upper_edge}

\* An argument of the setter that is no BinningDefinition.
NotABinning == [lower_edge |-> 0, upper_edge |-> 0]

NoGet == [op |-> "none", exc |-> "none", binning |-> NotABinning,
          src |-> <<>>, gamma |-> <<>>, values |-> <<>>, grads |-> <<>>]

DInit ==
    /\ _sinDec_binning = [lower_edge |-> -1, upper_edge |-> 1]
    /\ det_ret = NoGet

\* np.exp(self._log_spl_sinDec(x)): the spline belongs to scipy; it is a
\* positive function of x, a different value in each cell.
exp_log_spl_sinDec(x) == x + 3

\* np.exp(self._log_spl_sinDec_gamma(x, g, grid=False)).
exp_log_spl_sinDec_gamma(x, g) == 10 * g + x + 3

\* self._log_spl_sinDec_gamma(x, g, grid=False, dy=1).
log_spl_sinDec_gamma_dy(x, g) == x + g

\* Mutant of in_range: the edges are left out.
in_range_open(b, s) == s > b.lower_edge /\ s < b.upper_edge

\* One element of mask: lower_edge <= sin(dec) <= upper_edge.
in_range(b, s) == s >= b.lower_edge /\ s <= b.upper_edge

\* mask = (np.sin(src_dec) >= lower_edge) & (np.sin(src_dec) <= upper_edge)
det_mask(b, src) == [i \in 1 .. Len(src) |-> in_range(b, src[i])]

\* a[mask] as a value: the elements of a where mask holds, in order.
RECURSIVE np_take(_, _)
np_take(a, mask) ==
    IF Len(mask) = 0 THEN <<>>
    ELSE (IF Head(mask) THEN <<Head(a)>> ELSE <<>>)
             \o np_take(Tail(a), Tail(mask))

\* a[mask] = rhs: the k-th element of rhs goes to the k-th place where mask
\* holds; the other places keep their value.
np_put(a, mask, rhs) ==
    [i \in 1 .. Len(a) |->
        IF mask[i] THEN rhs[Cardinality({j \in 1 .. i : mask[j]})]
        ELSE a[i]]

\* np.zeros_like(src_dec, dtype=np.float64)
np_zeros_like(a) == [i \in 1 .. Len(a) |-> 0]

\* I3PointLikeSourceFixedFluxDetSigEff.get: (values, None).
fixed_get(b, src) ==
    LET mask == det_mask(b, src)
        x    == np_take(src, mask)
        rhs  == [k \in 1 .. Len(x) |-> exp_log_spl_sinDec(x[k])]
    IN  [values |-> np_put(np_zeros_like(src), mask, rhs), grads |-> <<>>]

\* I3PointLikeSourcePowerLawFluxDetSigEff.get: (values, grads).
powerlaw_get(b, src, src_gamma) ==
    LET mask   == det_mask(b, src)
        x      == np_take(src, mask)
        g      == np_take(src_gamma, mask)
        rhs    == [k \in 1 .. Len(x) |-> exp_log_spl_sinDec_gamma(x[k], g[k])]
        values == np_put(np_zeros_like(src), mask, rhs)
        v      == np_take(values, mask)
        grhs   == [k \in 1 .. Len(x) |->
                      v[k] * log_spl_sinDec_gamma_dy(x[k], g[k])]
    IN  [values |-> values,
         grads  |-> np_put(np_zeros_like(src), mask, grhs)]

\* The setter of sinDec_binning.
SetSinDecBinning(binning) ==
    /\ IF binning \in Binnings
       THEN /\ _sinDec_binning' = binning
            /\ det_ret' = [NoGet EXCEPT !.op = "sinDec_binning",
                                        !.binning = binning]
       ELSE /\ det_ret' = [NoGet EXCEPT !.op = "sinDec_binning",
                                        !.exc = "TypeError"]
            /\ UNCHANGED _sinDec_binning
    /\ UNCHANGED <<dsVars, mVars, wVars, tsVars, caVars>>

\* A call of get on the fixed-flux method.
FixedGet(src) ==
    /\ det_ret' = [op |-> "fixed_get", exc |-> "none",
                   binning |-> _sinDec_binning, src |-> src, gamma |-> <<>>,
                   values |-> fixed_get(_sinDec_binning, src).values,
                   grads |-> <<>>]
    /\ UNCHANGED _sinDec_binning
    /\ UNCHANGED <<dsVars, mVars, wVars, tsVars, caVars>>

\* A call of get on the power-law method; src and src_flux_params are
\* record arrays of the same length.
PowerLawGet(src, src_gamma) ==
    /\ Len(src_gamma) = Len(src)
    /\ det_ret' = [op |-> "powerlaw_get", exc |-> "none",
                   binning |-> _sinDec_binning, src |-> src,
                   gamma |-> src_gamma,
                   values |-> powerlaw_get(_sinDec_binning, src, src_gamma).values,
                   grads |-> powerlaw_get(_sinDec_binning, src, src_gamma).grads]
    /\ UNCHANGED _sinDec_binning
    /\ UNCHANGED <<dsVars, mVars, wVars, tsVars, caVars>>

\* The source arrays of a call.
SrcArrays == UNION {[1 .. n -> SinDecValues] : n \in 0 .. MaxSrc}

DSet == \E binning \in Binnings \cup {NotABinning} : SetSinDecBinning(binning)

\* get changes nothing on the object: a call of get is followed by a change
\* of the binning before the next one.
GetAllowed == det_ret.op \notin {"fixed_get", "powerlaw_get"}

DFixedGet == GetAllowed /\ \E src \in SrcArrays : FixedGet(src)

DPowerLawGet ==
    /\ GetAllowed
    /\ \E src \in SrcArrays :
        \E src_gamma \in [1 .. Len(src) -> GammaValues] :
            PowerLawGet(src, src_gamma)

DNext == DSet \/ DFixedGet \/ DPowerLawGet

(***************************************************************************)
(* calculate_TS and the trial loop of do_trials_with_em                    *)
(* (analyses/i3/publicdata_ps/time_dependent_ps.py).                       *)
(***************************************************************************)
\* The TS values ana.calculate_test_statistic gives; ns is bounded below by
\* ns_min = 0, so that TS is not negative.
TSValues == {0, 1, 2}

\* The fit parameter values (ns, gamma) ana.llhratio.maximize gives.
FitParamValues == {<<0, 2>>, <<1, 2>>, <<1, 3>>}

\* None as a row of em_results, and a row of the gamma scan.
NoneRow == [none |-> TRUE, gamma |-> 0]

em_row(i) == [none |-> FALSE, gamma |-> i]

\* None as fit parameter values.
NoneFit == <<>>

TSInit ==
    /\ ts_pc = "idle"
    /\ ts_exc = "none"
    /\ em_results = <<>>
    /\ ts_idx = 0
    /\ max_TS = 0
    /\ best_em_result = NoneRow
    /\ best_fitparam_values = NoneFit
    /\ ts_log = <<>>

\* do_trials_with_em, lines 544-559: a trial gets its em_results from the
\* gamma scan and calls calculate_TS, which starts at lines 318-321.
DoTrial(n) ==
    /\ ts_pc \in {"idle", "stored"}
    /\ em_results' = [i \in 1 .. n |-> em_row(i)]
    /\ ts_pc' = "for"
    /\ ts_exc' = "none"
    /\ ts_idx' = 1
    /\ max_TS' = 0
    /\ best_em_result' = NoneRow
    /\ best_fitparam_values' = NoneFit
    /\ ts_log' = <<>>
    /\ UNCHANGED <<dsVars, mVars, wVars, detVars, caVars>>

\* calculate_TS, lines 321-338: one row of em_results.
TSIterate(TS, fitparam_values) ==
    /\ ts_pc = "for"
    /\ ts_idx <= Len(em_results)
    /\ ts_log' = Append(ts_log, [TS |-> TS, fitparam_values |-> fitparam_values])
    /\ IF TS > max_TS
       THEN /\ max_TS' = TS
            /\ best_em_result' = em_results[ts_idx]
            /\ best_fitparam_values' = fitparam_values
       ELSE UNCHANGED <<max_TS, best_em_result, best_fitparam_values>>
    /\ ts_idx' = ts_idx + 1
    /\ UNCHANGED <<ts_pc, ts_exc, em_results>>
    /\ UNCHANGED <<dsVars, mVars, wVars, detVars, caVars>>

\* calculate_TS, line 340.
TSReturn ==
    /\ ts_pc = "for"
    /\ ts_idx > Len(em_results)
    /\ ts_pc' = "returned"
    /\ UNCHANGED <<ts_exc, em_results, ts_idx, max_TS, best_em_result,
                   best_fitparam_values, ts_log>>
    /\ UNCHANGED <<dsVars, mVars, wVars, detVars, caVars>>

\* do_trials_with_em, lines 561-577: the trial row is filled from
\* best_fitparams[0] and best_em_result['ns_em']; None has no items.
TrialStore ==
    /\ ts_pc = "returned"
    /\ IF best_fitparam_values = NoneFit \/ best_em_result = NoneRow
       THEN /\ ts_pc' = "raised"
            /\ ts_exc' = "TypeError"
       ELSE /\ ts_pc' = "stored"
            /\ UNCHANGED ts_exc
    /\ UNCHANGED <<em_results, ts_idx, max_TS, best_em_result,
                   best_fitparam_values, ts_log>>
    /\ UNCHANGED <<dsVars, mVars, wVars, detVars, caVars>>

TSStep ==
    /\ ts_pc = "for"
    /\ \E TS \in TSValues, fitparam_values \in FitParamValues :
           TSIterate(TS, fitparam_values)

TSNext ==
    \/ \E n \in 0 .. MaxRows : DoTrial(n)
    \/ TSStep
    \/ TSReturn
    \/ TrialStore

(***************************************************************************)
(* create_analysis (analyses/i3/publicdata_ps/mcbkg_ps.py): the choice of  *)
(* the minimizer, the loading of the datasets and the construction of the  *)
(* log-likelihood-ratio function.                                          *)
(***************************************************************************)
\* Values of the argument minimizer_impl.
MinimizerImpls == {"LBFGS", "minuit", "other"}

\* len(cut_sindec) and len(spl_smooth): None stands for the default lists,
\* which have five elements.
DefaultLen == 5

ListLens == (0 .. MaxDatasets) \cup {DefaultLen}

NoCAArgs == [minimizer_impl |-> "LBFGS", n_datasets |-> 0,
             len_cut_sindec |-> DefaultLen, len_spl_smooth |-> DefaultLen]

CAInit ==
    /\ ca_pc = "idle"
    /\ ca_exc = "none"
    /\ ca_args = NoCAArgs
    /\ minimizer = "None"
    /\ ca_loaded = 0
    /\ ana_llhratio = "None"

\* Lines 224-233: the minimizer instance for minimizer_impl.
CACall(minimizer_impl, n_ds, len_cut_sindec, len_spl_smooth) ==
    /\ ca_pc = "idle"
    /\ ca_args' = [minimizer_impl |-> minimizer_impl,
                   n_datasets |-> n_ds,
                   len_cut_sindec |-> len_cut_sindec,
                   len_spl_smooth |-> len_spl_smooth]
    /\ IF minimizer_impl = "LBFGS"
       THEN /\ minimizer' = "LBFGSMinimizerImpl"
            /\ ca_pc' = "selected"
            /\ UNCHANGED ca_exc
       ELSE IF minimizer_impl = "minuit"
       THEN /\ minimizer' = "IMinuitMinimizerImpl"
            /\ ca_pc' = "selected"
            /\ UNCHANGED ca_exc
       ELSE /\ ca_pc' = "raised"
            /\ ca_exc' = "NameError"
            /\ UNCHANGED minimizer
    /\ UNCHANGED <<ca_loaded, ana_llhratio>>
    /\ UNCHANGED <<dsVars, mVars, wVars, detVars, tsVars>>

\* Lines 235-320: the models, the minimizer instance of lines 293-294, the
\* Analysis instance and the check of the lengths of the spline parameters.
CACreate ==
    /\ ca_pc = "selected"
    /\ minimizer' = "LBFGSMinimizerImpl"
    /\ IF \/ ca_args.len_spl_smooth < ca_args.n_datasets
          \/ ca_args.len_cut_sindec < ca_args.n_datasets
       THEN /\ ca_pc' = "raised"
            /\ ca_exc' = "AssertionError"
       ELSE /\ ca_pc' = "loading"
            /\ UNCHANGED ca_exc
    /\ UNCHANGED <<ca_args, ca_loaded, ana_llhratio>>
    /\ UNCHANGED <<dsVars, mVars, wVars, detVars, tsVars>>

\* Lines 324-404: one dataset is loaded and added to the analysis.
CALoad ==
    /\ ca_pc = "loading"
    /\ ca_loaded < ca_args.n_datasets
    /\ ca_loaded' = ca_loaded + 1
    /\ UNCHANGED <<ca_pc, ca_exc, ca_args, minimizer, ana_llhratio>>
    /\ UNCHANGED <<dsVars, mVars, wVars, detVars, tsVars>>

\* Lines 405-413: the services, ana.llhratio with the minimizer, return.
CAReturn ==
    /\ ca_pc = "loading"
    /\ ca_loaded = ca_args.n_datasets
    /\ ana_llhratio' = minimizer
    /\ ca_pc' = "returned"
    /\ UNCHANGED <<ca_exc, ca_args, minimizer, ca_loaded>>
    /\ UNCHANGED <<dsVars, mVars, wVars, detVars, tsVars>>

CACallAny ==
    /\ ca_pc = "idle"
    /\ \E minimizer_impl \in MinimizerImpls, n_ds \in 0 .. MaxDatasets,
          len_cut_sindec \in ListLens, len_spl_smooth \in ListLens :
           CACall(minimizer_impl, n_ds, len_cut_sindec, len_spl_smooth)

CANext == CACallAny \/ CACreate \/ CALoad \/ CAReturn
(***************************************************************************)
(* Specifications                                                          *)
(***************************************************************************)
WCall ==
    \/ \E m \in ShgMgrArgs, t \in DetSigYieldsArgs : Construct(m, t)
    \/ \E m \in ShgMgrArgs : ChangeShgMgr(m)
    \/ \E s \in ServiceArgs : FactorsConstruct(s)

WNext == WCall \/ CalcBegin \/ CalcBlock \/ FactorsCalculate

Init == GenInit /\ WInit /\ MInit /\ DInit /\ TSInit /\ CAInit

\* One call of generate_signal_events.
SpecGen == Init /\ [][GenNext]_vars

\* The draws are random: a batch of valid events, possible again and again,
\* is not postponed forever; the call itself keeps running.
FairSpecGen == SpecGen /\ WF_vars(GenNext) /\ SF_vars(DrawAllValid)

\* The weight services: construction, change of the manager, one yield
\* computation with any yields and gradients the detector-signal-yield
\* models may return, and the computation of the dataset factors.
SpecWeights == Init /\ [][WNext]_vars


\* The yield-weights service and its readers: get_weights calls and lookups
\* on the returned gradient map interleave with construction, change of the
\* manager and calculate.
SNext ==
    \/ \E m \in ShgMgrArgs, t \in DetSigYieldsArgs : Construct(m, t)
    \/ \E m \in ShgMgrArgs : ChangeShgMgr(m)
    \/ CalcBegin
    \/ CalcBlock
    \/ GetWeights
    \/ \E gpidx \in GlobalParams : LookUp(gpidx)

SpecReaders == Init /\ [][SNext]_vars

\* A reader that keeps the pair of get_weights while the services go on:
\* construction, changes of the manager, up to two yield computations, and
\* the dataset factors.
SnapInit == GenInit /\ WInitWith(2) /\ MInit /\ DInit /\ TSInit /\ CAInit

\* The last response of a yield model gave every source of the group the
\* same yield and every gradient the value 1; the yield is 0 or 1 in the
\* last calculate of the run and MaxY in the ones before it.
UniformResponse(log) ==
    LET r == log[Len(log)]
    IN  /\ \A i \in DOMAIN r.Yg : r.Yg[i] = r.Yg[1]
        /\ \A p \in DOMAIN r.Yg_grads :
               \A i \in DOMAIN r.Yg_grads[p] : r.Yg_grads[p][i] = 1
        /\ IF calcs_left > 0 THEN r.Yg[1] = MaxY ELSE r.Yg[1] <= 1

\* One pass of the inner loop of calculate with a model that raises or
\* gives a uniform response.
SnapCalcBlock ==
    /\ CalcBlock
    /\ Y_log' = Y_log \/ UniformResponse(Y_log')

\* The reader calls get_weights between the calls on the service.
SnapGetWeights ==
    /\ c_pc = "idle"
    /\ GetWeights

SnapNext ==
    \/ \E m \in ShgMgrArgs, t \in DetSigYieldsArgs : Construct(m, t)
    \/ \E m \in ShgMgrArgs : ChangeShgMgr(m)
    \/ \E s \in ServiceArgs : FactorsConstruct(s)
    \/ CalcBegin
    \/ SnapCalcBlock
    \/ SnapGetWeights
    \/ FactorsCalculate

SpecSnapshot == SnapInit /\ [][SnapNext]_vars

\* One call of PublicDataSignalGenerator.generate_signal_events and its
\* repetition with the same arguments and the same random values.
SpecMulti == Init /\ [][MNext]_vars

\* The detector signal efficiency methods alone.
SpecDetSigEff == Init /\ [][DNext]_vars

\* The trials of do_trials_with_em alone.
SpecTS == Init /\ [][TSNext]_vars

\* create_analysis alone.
SpecCreate == Init /\ [][CANext]_vars

Next == GenNext \/ WNext \/ SNext \/ MNext \/ DNext \/ TSNext \/ CANext

\* The subsystems side by side.
Spec == Init /\ [][Next]_vars
(***************************************************************************)
(* Claims about generate_signal_events                                     *)
(***************************************************************************)
\* A row of the output that carries no NaN and is marked valid.
CleanRow(e) == e.isvalid /\ ~e.log_e_nan /\ ~e.psi_nan /\ ~e.ang_err_nan

ExactlyNClean(r, n) ==
    /\ ~r.none
    /\ Len(r.rows) = n
    /\ \A i \in 1 .. Len(r.rows) : CleanRow(r.rows[i])

\* C1 (as claimed): for every requested count n, when generate_signal_events
\* returns, the returned table holds exactly n records, each valid and
\* without a NaN reconstructed energy, psi or angular uncertainty.
C1_ReturnsTableOfN == pc = "returned" => ExactlyNClean(ret, n_events)

\* C1 (amended): for every requested count n >= 1 the returned table holds
\* exactly n records, each valid and without NaN; for n = 0 the call returns
\* None, not a table.
C1_ReturnsTableOfN_Amended ==
    pc = "returned" =>
        IF n_events >= 1 THEN ExactlyNClean(ret, n_events) ELSE ret = None

\* C1 witness: a call for n >= 1 has returned after an invalid draw was
\* dropped and drawn again.
C1_Witness ==
    /\ pc = "returned"
    /\ n_events >= 1
    /\ n_raw > n_events
    /\ ExactlyNClean(ret, n_events)

\* The raw draws hold valid and invalid events.
Mixed(batch) ==
    /\ \E i \in 1 .. Len(batch) : NoNaN(batch[i])
    /\ \E i \in 1 .. Len(batch) : ~NoNaN(batch[i])

\* C2: a batch with valid and invalid events never makes the call fail: the
\* invalid events are dropped, the valid ones are kept as the batch's
\* result, and the call goes on (it has not raised).
C2_MixedBatchNeverFails ==
    Mixed(drawn) =>
        /\ pc # "raised"
        /\ exc = "none"
        /\ events_ = Table(SelectSeq([i \in 1 .. Len(drawn) |-> EventOf(drawn[i])],
                                     CleanRow))

\* C3: when the events drawn for the declination bin can be valid and valid
\* draws are not postponed forever, the call eventually returns, with
\* exactly n events.
C3_EventuallyReturnsN ==
    (pc = "while" /\ Resolved(dec_idx) /\ Coverage[dec_idx] # "none")
        ~> (pc = "returned" /\ Len(ret.rows) = n_events)

\* C4: for a source declination outside the matrix's coverage the call
\* raises nothing, does not enter the retry loop with an unresolved
\* declination bin, and returns zero events.
C4_OutOfCoverageYieldsZero ==
    (pc # "idle" /\ ~InCoverage(src_dec)) =>
        /\ exc = "none"
        /\ pc # "raised"
        /\ ~(pc = "while" /\ n_evt_generated # n_events /\ ~Resolved(dec_idx))
        /\ (pc = "returned" => Len(ret.rows) = 0)


(***************************************************************************)
(* Claims about DatasetSignalWeightFactorsService.calculate.  The sums of  *)
(* the claims are written out here, apart from the operators of the model. *)
(***************************************************************************)
RECURSIVE SetSum(_, _)
\* Sum of f[x] over the x of the finite set S.
SetSum(f, S) ==
    IF S = {} THEN 0
    ELSE LET x == CHOOSE y \in S : TRUE
         IN  f[x] + SetSum(f, S \ {x})

RECURSIVE SetProd(_, _)
\* Product of f[x] over the x of the finite set S.
SetProd(f, S) ==
    IF S = {} THEN 1
    ELSE LET x == CHOOSE y \in S : TRUE
         IN  f[x] * SetProd(f, S \ {x})

\* The factors are set, computed from a yield matrix whose entries were all
\* written.
FactorsOfFullMatrix ==
    /\ ~_f_j.none
    /\ ~f_in[1].none
    /\ \A j \in 1 .. Len(f_in[1].rows) :
          \A k \in 1 .. Len(f_in[1].rows[j]) : f_in[1].rows[j][k].w > 0

\* The datasets and sources of the matrix read, and its entries.
InJ == 1 .. Len(f_in[1].rows)

InK == 1 .. Len(f_in[1].rows[1])

InA(j, k) == f_in[1].rows[j][k].v

\* a_j and a of the matrix read.
InRow(j) == SetSum([k \in InK |-> InA(j, k)], InK)

InTotal == SetSum([j \in InJ |-> InRow(j)], InJ)

\* da_j/dp and da/dp of the gradient map read.
InGradRow(p, j) == SetSum([k \in InK |-> f_in[2].rows[p][j][k]], InK)

InGradTotal(p) == SetSum([j \in InJ |-> InGradRow(p, j)], InJ)

\* The quotient q is the fraction num / den (den # 0).
IsFraction(q, num, den) == q[2] > 0 /\ q[1] * den = q[2] * num

\* The quotient q is what the division num / den of two doubles gives.
IsQuotient(q, num, den) ==
    IF den = 0 THEN q = <<Sign(num), 0>> ELSE IsFraction(q, num, den)

\* C5: after calculate on a yield matrix with non-negative entries of which
\* one at least is strictly positive, the factors sum to 1 over the
\* datasets.
C5_FactorsSumToOne ==
    (/\ FactorsOfFullMatrix
     /\ \A j \in InJ : \A k \in InK : InA(j, k) >= 0
     /\ \E j \in InJ : \E k \in InK : InA(j, k) > 0)
    => /\ \A j \in InJ : IsFinite(_f_j.rows[j])
       /\ LET den == [j \in InJ |-> _f_j.rows[j][2]]
              D == SetProd(den, InJ)
          IN  SetSum([j \in InJ |-> _f_j.rows[j][1] * (D \div den[j])], InJ)
                  = D

\* C5 witness: factors of a matrix with a zero and a positive entry, which
\* are proper fractions.
C5_Witness ==
    /\ FactorsOfFullMatrix
    /\ \E j \in InJ : \E k \in InK : InA(j, k) = 0
    /\ \E j \in InJ : \E k \in InK : InA(j, k) > 0
    /\ \E j \in InJ : _f_j.rows[j][2] > 2

\* C6: calculate sets f[j] = (sum_k a[j,k]) / (sum_jk a[j,k]) for every
\* dataset j of the matrix it read; a_jk = [[2,2],[1,1]] gives
\* f = [2/3, 1/3].
C6_FactorIsRowOverTotal ==
    FactorsOfFullMatrix =>
        /\ Len(_f_j.rows) = Len(f_in[1].rows)
        /\ \A j \in InJ : IsQuotient(_f_j.rows[j], InRow(j), InTotal)
        /\ ([j \in InJ |-> [k \in InK |-> InA(j, k)]] = << <<2, 2>>, <<1, 1>> >>
            => _f_j.rows = << <<2, 3>>, <<1, 3>> >>)

\* C6 witness: the factors of a_jk = [[2,2],[1,1]] were computed.
C6_Witness ==
    /\ FactorsOfFullMatrix
    /\ [j \in InJ |-> [k \in InK |-> InA(j, k)]] = << <<2, 2>>, <<1, 1>> >>
    /\ InRow(1) = 4
    /\ InRow(2) = 2
    /\ InTotal = 6

\* C7: after calculate the gradient map f_j_grads has exactly the keys of
\* the yield gradient map read, and for each key p and dataset j its value
\* is (da_j/dp * a - a_j * da/dp) / a^2.
C7_GradientIsQuotientRule ==
    FactorsOfFullMatrix =>
        /\ DOMAIN _f_j_grads.rows = DOMAIN f_in[2].rows
        /\ \A p \in DOMAIN _f_j_grads.rows : \A j \in InJ :
              IsQuotient(_f_j_grads.rows[p][j],
                         InGradRow(p, j) * InTotal - InRow(j) * InGradTotal(p),
                         InTotal * InTotal)

\* C7 witness: a gradient map with two keys was computed, with a gradient
\* that is not zero and a dataset on whose yields a key does not depend.
C7_Witness ==
    /\ FactorsOfFullMatrix
    /\ InTotal > 0
    /\ Cardinality(DOMAIN _f_j_grads.rows) = 2
    /\ \E p \in DOMAIN _f_j_grads.rows : \E j \in InJ :
          /\ _f_j_grads.rows[p][j][1] # 0
          /\ InGradRow(p, j) = 0

\* C8: when the total yield is zero, calculate signals an error: it does
\* not complete normally and stores no NaN/Inf factor or gradient.
C8_ZeroTotalSignalsError ==
    (/\ last_call.op = "f_calculate"
     /\ ~_a_jk.none
     /\ \A j \in 1 .. Len(_a_jk.rows) : \A k \in 1 .. Len(_a_jk.rows[j]) :
           _a_jk.rows[j][k].w > 0 /\ _a_jk.rows[j][k].v = 0)
    => /\ w_exc # "none"
       /\ ~_f_j.none =>
             /\ \A j \in 1 .. Len(_f_j.rows) : IsFinite(_f_j.rows[j])
             /\ \A p \in DOMAIN _f_j_grads.rows :
                   \A j \in 1 .. Len(_f_j_grads.rows[p]) :
                       IsFinite(_f_j_grads.rows[p][j])

(***************************************************************************)
(* Claims about the construction of the services and change_shg_mgr        *)
(***************************************************************************)
\* The argument is a table: a sequence of sequences of DetSigYield.
IsTable(t) ==
    /\ t.type = "list"
    /\ \A i \in 1 .. Len(t.items) :
          /\ t.items[i].type = "list"
          /\ \A c \in 1 .. Len(t.items[i].items) :
                t.items[i].items[c].type = "DetSigYield"

IsManager(m) == m.type = "SourceHypoGroupManager"

\* No service object exists, and none of its attributes.
NoService ==
    /\ ~constructed
    /\ _shg_mgr = NoObj
    /\ _detsigyield_arr = <<>>
    /\ _src_recarray_list_list = <<>>
    /\ _src_weight_array_list = <<>>

\* The constructor was called with a manager and a table whose column count
\* is not the manager's number of groups.
ShapeMismatchCall ==
    /\ last_call.op = "init"
    /\ IsManager(last_call.arg)
    /\ IsTable(last_call.arg2)
    /\ Len(last_call.arg2.items[1].items) # Len(last_call.arg.items)

\* C9: constructing the service with a table whose column count differs
\* from the manager's number of groups raises ValueError, and no service
\* object is produced.
C9_ShapeMismatchRaisesValueError ==
    ShapeMismatchCall => w_exc = "ValueError" /\ NoService

\* C9 witness: a manager of two groups was given with a table of one column.
C9_Witness ==
    /\ ShapeMismatchCall
    /\ Len(last_call.arg.items) = 2
    /\ w_exc = "ValueError"

\* C10: a wrong-typed argument raises TypeError and is not coerced: a
\* shg_mgr that is no SourceHypoGroupManager (constructor, change_shg_mgr),
\* a detsigyields row with an element that is no DetSigYield (constructor),
\* a service that is no SrcDetSigYieldWeightsService (factors service);
\* after the TypeError of change_shg_mgr the manager, the record arrays and
\* the weight vectors are those of before the call.
C10_WrongTypeRaisesTypeError ==
    /\ (last_call.op = "init" /\ ~IsManager(last_call.arg))
           => w_exc = "TypeError" /\ NoService
    /\ (/\ last_call.op = "init"
        /\ IsManager(last_call.arg)
        /\ last_call.arg2.type = "list"
        /\ \E i \in 1 .. Len(last_call.arg2.items) :
              /\ last_call.arg2.items[i].type = "list"
              /\ \E c \in 1 .. Len(last_call.arg2.items[i].items) :
                    last_call.arg2.items[i].items[c].type # "DetSigYield")
           => w_exc = "TypeError" /\ NoService
    /\ (last_call.op = "change_shg_mgr" /\ ~IsManager(last_call.arg))
           => w_exc = "TypeError" /\ MgrState = last_call.pre
    /\ (/\ last_call.op = "f_init"
        /\ last_call.arg.type # "SrcDetSigYieldWeightsService")
           => w_exc = "TypeError" /\ ~f_constructed

\* C10 witness: change_shg_mgr with an object that is no manager has raised
\* TypeError on a service whose yields were computed.
C10_Witness ==
    /\ last_call.op = "change_shg_mgr"
    /\ ~IsManager(last_call.arg)
    /\ w_exc = "TypeError"
    /\ ~_a_jk.none
    /\ IsManager(_shg_mgr)

(***************************************************************************)
(* Claims about SrcDetSigYieldWeightsService.calculate, change_shg_mgr and *)
(* get_weights                                                             *)
(***************************************************************************)
\* C11: calculate replaces the stored pair atomically: a get_weights call
\* made at any point returns the complete previous pair (before the first
\* calculate: None, None) or a complete new pair, never a matrix with
\* entries that were not written and never a matrix paired with no gradient
\* map.
C11_GetWeightsSeesCompletePair ==
    got.read =>
        \/ got.a_jk.none /\ got.a_jk_grads.none
        \/ /\ ~got.a_jk.none
           /\ ~got.a_jk_grads.none
           /\ Initialised(got.a_jk.rows)

\* C12: a change_shg_mgr call that returns has replaced the manager by its
\* argument and rebuilt, from the new manager, the source record arrays of
\* every (dataset, group) and the weight vector of every group; the call
\* leaves the yield matrix a_jk, the gradient map a_jk_grads and the table
\* of response models as they were.
C12_ChangeShgMgrRebuildsAndKeeps ==
    [][last_call'.op = "change_shg_mgr" =>
          /\ _a_jk' = _a_jk
          /\ _a_jk_grads' = _a_jk_grads
          /\ _detsigyield_arr' = _detsigyield_arr
          /\ w_exc' = "none" =>
                LET new == last_call'.arg
                IN  /\ _shg_mgr' = new
                    /\ Len(_src_weight_array_list') = Len(new.items)
                    /\ \A g \in 1 .. Len(new.items) :
                          _src_weight_array_list'[g] = new.items[g]
                    /\ Len(_src_recarray_list_list') = Len(_detsigyield_arr)
                    /\ \A d \in 1 .. Len(_detsigyield_arr) :
                          /\ Len(_src_recarray_list_list'[d])
                                 = Len(_detsigyield_arr[d])
                          /\ \A g \in 1 .. Len(_detsigyield_arr[d]) :
                                _src_recarray_list_list'[d][g] = new.items[g]
      ]_vars

\* C12 witness: change_shg_mgr has returned on a service with a computed
\* yield matrix, with a manager and weight vectors other than the old ones.
C12_Witness ==
    /\ last_call.op = "change_shg_mgr"
    /\ w_exc = "none"
    /\ ~_a_jk.none
    /\ _shg_mgr # last_call.pre[1]
    /\ _src_weight_array_list # last_call.pre[3]
    /\ _src_recarray_list_list # last_call.pre[2]

\* C13: after any sequence of construction, change_shg_mgr and calculate
\* calls, the matrix get_weights returns is, when it is not None, the one
\* computed for the manager now set: it was allocated for that manager, it
\* has one column per source of that manager, and every entry of it was
\* written.
C13_MatrixIsOfCurrentManager ==
    (/\ got.read
     /\ c_pc = "idle"
     /\ got.a_jk = _a_jk
     /\ ~got.a_jk.none)
    => /\ a_jk_mgr = _shg_mgr
       /\ \A j \in 1 .. Len(got.a_jk.rows) :
             Len(got.a_jk.rows[j]) = n_sources(_shg_mgr)
       /\ Initialised(got.a_jk.rows)

\* The last calculate call has returned normally.
CalculateReturned ==
    /\ last_call.op = "calculate"
    /\ c_pc = "idle"
    /\ w_exc = "none"
    /\ ~_a_jk.none

\* The global index (1-based) of the first source of group g, less one.
GroupOffset(mgr, g) == SumSeq([h \in 1 .. (g - 1) |-> Len(mgr.items[h])])

\* The global source indices of group g.
GroupSlice(mgr, g) ==
    {k \in 1 .. n_sources(mgr) :
        GroupOffset(mgr, g) < k /\ k <= GroupOffset(mgr, g) + Len(mgr.items[g])}

\* The calls of the response model of dataset j and group g that the last
\* calculate made.
CallsOf(j, g) == {i \in 1 .. Len(Y_log) : Y_log[i].ds = j /\ Y_log[i].shg = g}

\* C14: after calculate, for every dataset j, group g and source k of the
\* group's slice, a[j,k] = W_k * Y(j,g)[k], with Y(j,g) the yields the
\* response model of (j,g) returned and W_k the weight of source k captured
\* by the last construction or change_shg_mgr; and for every key p of the
\* gradient map, grad[p][j,k] = W_k * dY(j,g)/dp[k] when the model returned
\* the key p, and 0 when it did not.
C14_BlockIsWeightTimesYield ==
    CalculateReturned =>
        \A j \in 1 .. Len(_a_jk.rows) : \A g \in 1 .. Len(_shg_mgr.items) :
            /\ Cardinality(CallsOf(j, g)) = 1
            /\ g <= Len(_src_weight_array_list)
            /\ \A k \in GroupSlice(_shg_mgr, g) :
                  LET r == Y_log[CHOOSE i \in CallsOf(j, g) : TRUE]
                      W == _src_weight_array_list[g]
                      s == k - GroupOffset(_shg_mgr, g)
                  IN  /\ s <= Len(W)
                      /\ s <= Len(r.Yg)
                      /\ k <= Len(_a_jk.rows[j])
                      /\ _a_jk.rows[j][k].v = W[s] * r.Yg[s]
                      /\ \A p \in DOMAIN _a_jk_grads.rows :
                            _a_jk_grads.rows[p][j][k] =
                                IF p \in DOMAIN r.Yg_grads
                                THEN W[s] * r.Yg_grads[p][s]
                                ELSE 0

\* The gradient keys the response models returned in the last calculate.
KeysReturned == UNION {DOMAIN Y_log[i].Yg_grads : i \in 1 .. Len(Y_log)}

\* C15: the keys of the gradient map get_weights returns are exactly the
\* gradient keys the response models returned in the last calculate; a
\* parameter index no model depends on is never a key, also after the
\* dataset factors were calculated and after a reader has looked up an
\* absent index on the map.
C15_GradKeysAreReturnedKeys ==
    (got.read /\ ~_a_jk_grads.none)
        => DOMAIN _a_jk_grads.rows = KeysReturned

\* The columns the logged call i of calculate wrote: its group's slice.
LoggedSlice(i) ==
    {k \in 1 .. n_sources(_shg_mgr) :
        /\ Y_log[i].sidx < k
        /\ k <= Y_log[i].sidx + Len(_shg_mgr.items[Y_log[i].shg])}

\* C16: in a calculate that returns, the source slices of the groups, taken
\* in group order with the groups' numbers of sources as lengths, are
\* contiguous, pairwise disjoint and cover the global source indices
\* exactly: for every dataset, every entry of the freshly allocated matrix
\* is written exactly once.
C16_SlicesPartitionSources ==
    CalculateReturned =>
        /\ \A i \in 1 .. Len(Y_log) :
              Y_log[i].sidx = GroupOffset(_shg_mgr, Y_log[i].shg)
        /\ \A j \in 1 .. Len(_a_jk.rows) :
              /\ Len(_a_jk.rows[j]) = n_sources(_shg_mgr)
              /\ \A k \in 1 .. n_sources(_shg_mgr) :
                    /\ Cardinality({i \in 1 .. Len(Y_log) :
                           Y_log[i].ds = j /\ k \in LoggedSlice(i)}) = 1
                    /\ _a_jk.rows[j][k].w = 1

\* C16 witness: a calculate over two groups and two datasets has returned.
C16_Witness ==
    /\ CalculateReturned
    /\ Len(_shg_mgr.items) = 2
    /\ Len(_a_jk.rows) = 2
    /\ Len(Y_log) = 4
    /\ Y_log[4].sidx = 1

(***************************************************************************)
(* Claims about PublicDataSignalGenerator.generate_signal_events           *)
(***************************************************************************)
\* C17: the mean is split across groups and datasets: the means w_mean used
\* for the counts add up, over all groups and datasets, to the global mean,
\* so with poisson=False the returned tot_n_events never exceeds mean,
\* whatever the number of groups.
C17_MeanIsSplitAcrossGroups ==
    (m_pc = "returned" /\ ~m_args.poisson) =>
        /\ m_sum_w_mean = m_args.mean * SumSeq(m_args.weights[1])
        /\ tot_n_events <= m_args.mean

RECURSIVE GeneratedFor(_, _)
\* The events the first i dataset-level calls returned for dataset j, in
\* the order of the calls.
GeneratedFor(j, i) ==
    IF i = 0 THEN <<>>
    ELSE GeneratedFor(j, i - 1)
             \o (IF m_log[i].ds = j THEN m_log[i].rows ELSE <<>>)

\* C18: in the returned dict, the event table of dataset j is the
\* concatenation of the events generated for every (group, source) pair of
\* the dataset: no event of an earlier group or source is dropped or
\* overwritten, and the table is as long as the number of events generated
\* for j.
C18_TableIsConcatenation ==
    m_pc = "returned" =>
        \A j \in 1 .. Len(m_args.weights[1]) :
            LET all == GeneratedFor(j, Len(m_log))
            IN  /\ all # <<>> => j \in DOMAIN signal_events_dict
                /\ j \in DOMAIN signal_events_dict =>
                      /\ signal_events_dict[j] = all
                      /\ Len(signal_events_dict[j]) = Len(all)

\* A run of generate_signal_events has ended, by a return or an exception.
RunEnded == m_pc \in {"returned", "raised"}

\* C19: signal generation is deterministic in the random state service: the
\* repetition of a run with the same arguments and the same values
\* delivered by rss ends as the first run did, having consumed as many
\* values, with the same total count and the same event tables; what
\* np.empty left in memory does not show in the result.
C19_SameDrawsSameResult ==
    m_run = 2 =>
        /\ m_pc # "starved"
        /\ RunEnded => Outcome = m_first

\* C19 witness: a repeated run has returned events after a draw that was
\* not valid made the dataset-level loop draw again.
C19_Witness ==
    /\ m_run = 2
    /\ m_pc = "returned"
    /\ m_log # <<>>
    /\ \E i \in 1 .. (MaxDraws - Len(rss)) : m_args.stream[i] = 0
    /\ Outcome = m_first

\* The last call on a detector signal efficiency method was a get.
GetReturned == det_ret.op \in {"fixed_get", "powerlaw_get"}

MaxLoggedTS ==
    CHOOSE t \in {ts_log[i].TS : i \in 1 .. Len(ts_log)} :
        \A i \in 1 .. Len(ts_log) : ts_log[i].TS <= t

\* C21: for non-empty em_results calculate_TS returns the maximum of the
\* TS values of all rows, with the row and the fit parameter values of a
\* maximization that gave that maximum, neither of them None.
C21_ReturnsBestOfAllRows ==
    (ts_pc = "returned" /\ em_results # <<>>) =>
        /\ max_TS = MaxLoggedTS
        /\ best_em_result # NoneRow
        /\ best_fitparam_values # NoneFit
        /\ \E i \in 1 .. Len(ts_log) :
               /\ ts_log[i].TS = max_TS
               /\ best_em_result = em_results[i]
               /\ best_fitparam_values = ts_log[i].fitparam_values

\* C22: the log-likelihood-ratio function is constructed with the LBFGS
\* minimizer for 'LBFGS' and with the IMinuit minimizer for 'minuit'; any
\* other value raises NameError before a dataset is loaded.
C22_MinimizerIsTheSelectedOne ==
    /\ ca_pc = "returned" =>
           ana_llhratio = (IF ca_args.minimizer_impl = "LBFGS"
                           THEN "LBFGSMinimizerImpl"
                           ELSE "IMinuitMinimizerImpl")
    /\ (ca_pc # "idle" /\ ca_args.minimizer_impl \notin {"LBFGS", "minuit"}) =>
           /\ ca_pc = "raised"
           /\ ca_exc = "NameError"
           /\ ca_loaded = 0

\* C23: for a declination bin in which no draw is ever valid and n >= 1,
\* the call stays in its loop: it has not returned and has not raised,
\* every batch requested had the size n, and nothing was accumulated.
C23_UncoveredBinLoopsForever ==
    (pc # "idle" /\ Resolved(dec_idx) /\ Coverage[dec_idx] = "none"
                 /\ n_events >= 1) =>
        /\ pc = "while"
        /\ exc = "none"
        /\ n_evt_generated = 0
        /\ events \in {None, Table(<<>>)}
        /\ drawn # <<>> => (n_evt = n_events /\ Len(drawn) = n_events)

\* The valid events of the raw draws of a batch, in the order drawn.
ValidEventsOf(batch) ==
    SelectSeq([i \in 1 .. Len(batch) |-> EventOf(batch[i])], CleanRow)

\* The rows accumulated so far.
RowsOf(evts) == IF evts.none THEN <<>> ELSE evts.rows

\* C24: an iteration of the retry loop requests n minus the number of
\* events accumulated so far; the accumulated count grows by the number of
\* valid events of the batch and its events are appended after the earlier
\* ones; the count stays within 0..n, and the loop is left exactly when the
\* count is n.
C24_LoopAccumulatesValidEvents ==
    /\ [](pc # "idle" => n_evt_generated \in 0 .. n_events)
    /\ [][pc = "while" =>
            IF n_evt_generated = n_events
            THEN pc' = "returned"
            ELSE /\ pc' # "returned"
                 /\ n_evt' = n_events - n_evt_generated
                 /\ Len(drawn') = n_evt'
                 /\ n_evt_generated' =
                        n_evt_generated + Len(ValidEventsOf(drawn'))
                 /\ RowsOf(events') = RowsOf(events) \o ValidEventsOf(drawn')
                 /\ n_evt_generated' <= n_events]_vars

\* The calls of the dataset generator of dataset j made for group g.
SamplerCalls(g, j) ==
    {i \in 1 .. Len(m_calls) : m_calls[i].shg = g /\ m_calls[i].ds = j}

\* The (group, dataset) pairs of a run, as a sequence.
GroupDatasetPairs ==
    LET G == Len(m_args.mgr.items)
        J == Len(m_args.weights[1])
    IN  [p \in 1 .. (G * J) |-> <<((p - 1) \div J) + 1, ((p - 1) % J) + 1>>]

\* The count passed to the first source of each (group, dataset) pair.
CountsOfPairs ==
    [p \in 1 .. Len(GroupDatasetPairs) |->
        LET first == {i \in SamplerCalls(GroupDatasetPairs[p][1],
                                         GroupDatasetPairs[p][2]) :
                         m_calls[i].src = 1}
        IN  IF first = {} THEN 0
            ELSE m_calls[CHOOSE i \in first : TRUE].n_events]

\* C25: when the call returns, every source of a group was sampled once
\* for each dataset, every source of a group with the same count for that
\* dataset, and tot_n_events is the sum of these counts taken once per
\* (group, dataset) pair, whatever the number of sources.
C25_FullCountForEverySource ==
    m_pc = "returned" =>
        /\ \A g \in 1 .. Len(m_args.mgr.items) :
             \A j \in 1 .. Len(m_args.weights[g]) :
               /\ \A s \in 1 .. Len(m_args.mgr.items[g]) :
                    Cardinality({i \in SamplerCalls(g, j) :
                                    m_calls[i].src = s}) = 1
               /\ \A i1, i2 \in SamplerCalls(g, j) :
                    m_calls[i1].n_events = m_calls[i2].n_events
        /\ tot_n_events = SumSeq(CountsOfPairs)

\* C25 witness: a run on a group of two sources has returned; both sources
\* were sampled with the count 1 for a dataset and tot_n_events counts that
\* once.
C25_Witness ==
    /\ m_pc = "returned"
    /\ m_args.mgr = MgrOneGroup
    /\ tot_n_events = 1
    /\ \E i1, i2 \in 1 .. Len(m_calls) :
          /\ m_calls[i1].ds = m_calls[i2].ds
          /\ m_calls[i1].src = 1
          /\ m_calls[i2].src = 2
          /\ m_calls[i1].n_events = 1
          /\ m_calls[i2].n_events = 1
          /\ Len(m_calls[i1].ret.rows) = 1
          /\ Len(m_calls[i2].ret.rows) = 1

\* The datasets for which every call of the dataset generator had the
\* count 0.
DatasetsWithoutEvents ==
    {j \in 1 .. Len(m_args.weights[1]) :
        \A i \in 1 .. Len(m_calls) :
            m_calls[i].ds = j => m_calls[i].n_events = 0}

\* C29: a call of the dataset generator for the count 0 returns None (not
\* an empty table) and consumes no value of rss; the source is skipped, so
\* that a dataset whose count is 0 in every group has no entry in the
\* dictionary returned.
C29_ZeroCountLeavesNoEntry ==
    /\ \A i \in 1 .. Len(m_calls) :
          m_calls[i].n_events = 0 =>
              /\ m_calls[i].ret = None
              /\ m_calls[i].used = 0
    /\ m_pc = "returned" =>
          \A j \in DatasetsWithoutEvents : j \notin DOMAIN signal_events_dict

\* C29 witness: a run has returned events for one dataset and sampled the
\* other dataset with the count 0 only; that dataset has no entry.
C29_Witness ==
    /\ m_pc = "returned"
    /\ m_args.poisson
    /\ DatasetsWithoutEvents # {}
    /\ \E i \in 1 .. Len(m_calls) : m_calls[i].n_events = 0
    /\ DOMAIN signal_events_dict # {}
    /\ \A j \in DatasetsWithoutEvents : j \notin DOMAIN signal_events_dict

\* The table of response models has one column per group of the manager.
ColumnsMatchGroups == shape1(_detsigyield_arr) = n_src_hypo_groups(_shg_mgr)

\* C26: a successful construction, and every change_shg_mgr call that
\* returns normally after it, leaves a table with one column per group of
\* the manager set; with such a table the weight vectors cover every group
\* and calculate indexes no response model or record array outside it.
C26_TableColumnsMatchGroups ==
    /\ [][(~constructed /\ constructed') => ColumnsMatchGroups']_vars
    /\ [][(constructed /\ ColumnsMatchGroups
              /\ last_call'.op = "change_shg_mgr" /\ w_exc' = "none")
            => ColumnsMatchGroups']_vars
    /\ []((constructed /\ ColumnsMatchGroups) =>
             Len(_src_weight_array_list) = n_src_hypo_groups(_shg_mgr))
    /\ [][(constructed /\ ColumnsMatchGroups /\ c_pc = "loop")
            => w_exc' # "IndexError"]_vars

\* The last call on the service was a calculate that ended with the
\* exception of a response model.
CalculateFailed ==
    last_call.op = "calculate" /\ w_exc = "Exception" /\ c_pc = "idle"

\* C27: a calculate in which a response model raises leaves the service
\* as it was; it is the only calculate of the run, so the stored pair is
\* still (None, None), and that is what a following get_weights returns.
C27_FailedCalculateChangesNothing ==
    /\ [](CalculateFailed => (_a_jk = None /\ _a_jk_grads = None))
    /\ [][(CalculateFailed /\ got'.read /\ got' # got)
            => (got'.a_jk = None /\ got'.a_jk_grads = None)]_vars

\* C30: for a yield matrix with a total that is not zero and every key p
\* of the gradient map, the gradients of the dataset factors are finite
\* and sum to zero over the datasets.
C30_FactorGradientsSumToZero ==
    (FactorsOfFullMatrix /\ InTotal # 0) =>
        \A p \in DOMAIN _f_j_grads.rows :
            /\ \A j \in InJ : IsFinite(_f_j_grads.rows[p][j])
            /\ LET den == [j \in InJ |-> _f_j_grads.rows[p][j][2]]
                   D == SetProd(den, InJ)
               IN  SetSum([j \in InJ |->
                              _f_j_grads.rows[p][j][1] * (D \div den[j])],
                          InJ) = 0

\* C30 witness: factors were computed from a matrix with a positive total,
\* and for a key the gradient of one dataset is positive and that of the
\* other negative.
C30_Witness ==
    /\ FactorsOfFullMatrix
    /\ InTotal > 0
    /\ \E p \in DOMAIN _f_j_grads.rows : \E j1, j2 \in InJ :
          /\ _f_j_grads.rows[p][j1][1] > 0
          /\ _f_j_grads.rows[p][j2][1] < 0
          /\ IsFinite(_f_j_grads.rows[p][j1])
          /\ IsFinite(_f_j_grads.rows[p][j2])

\* The reader holds a pair that get_weights returned when no calculate was
\* running and a calculate had allocated the matrix.
HeldAfterCalculate == held.read /\ held.idle /\ ~held.a_jk.none

\* A step of calculate or a call of change_shg_mgr.
ServiceStep ==
    \/ CalcBegin
    \/ CalcBlock
    \/ \E m \in ShgMgrArgs : ChangeShgMgr(m)

\* C28: a pair obtained from get_weights after a calculate is a stable
\* snapshot: a later calculate binds the service to objects other than the
\* ones the reader holds, no step of a later calculate and no
\* change_shg_mgr changes the matrix or the gradient arrays the reader
\* holds, and the stored dataset factors change only in a call of the
\* factors service's own calculate.
C28_HeldPairIsStableSnapshot ==
    /\ [][(HeldAfterCalculate /\ CalcBegin) => a_jk_obj' # held.obj]_vars
    /\ [][(HeldAfterCalculate /\ ServiceStep) =>
             /\ held'.obj = held.obj
             /\ held'.a_jk = held.a_jk
             /\ held'.a_jk_grads = held.a_jk_grads]_vars
    /\ [][(_f_j' # _f_j \/ _f_j_grads' # _f_j_grads) => FactorsCalculate]_vars

\* C28 witness: the reader holds the complete pair of an earlier calculate,
\* the factors were computed from it, and a later calculate has completed
\* with another matrix.
C28_Witness ==
    /\ HeldAfterCalculate
    /\ Initialised(held.a_jk.rows)
    /\ held.obj < a_jk_obj
    /\ c_pc = "idle"
    /\ w_exc = "none"
    /\ ~_a_jk.none
    /\ Initialised(_a_jk.rows)
    /\ _a_jk # held.a_jk
    /\ ~_f_j.none
    /\ f_in = <<held.a_jk, held.a_jk_grads>>
====
